---- MODULE Spec2Model ----
(***************************************************************************)
(* A model of clyde: the REPL driver (env/repl.rs), the interpreter and    *)
(* its symbol table (front/mod.rs), the function framework                 *)
(* (front/function.rs), the lazy query tree (front/query.rs), the value    *)
(* and type data (front/data.rs) and the backend boundary (back/).         *)
(***************************************************************************)
EXTENDS Integers, Sequences, FiniteSets, TLC

VARIABLES
    prev_results,   \* Repl.prev_results: Vec<Option<Value>>, None is <<>>, Some(v) is <<v>>
    rls,            \* Repl.rls: Option<Rc<Rls>>, None is <<>>, Some(instance k) is <<k>>
    pc,             \* position of Repl::run: "prompt", "read", "exited", "panicked"; "interp" outside a REPL
    prompt,         \* the number printed by the last prompt
    symbols,        \* SymbolTable.variables of the live (or last) Interpreter
    log,            \* what the last loop iteration or operation did, in order
    result,         \* the Result the last operation returned, <<>> when there is none
    inits,          \* number of calls of Rls::init so far
    tables,         \* number of SymbolTable::default() constructions so far
    nread,          \* number of non-empty lines read so far
    stmt            \* the statement or lookup the last operation was given, <<>> when none

vars == <<prev_results, rls, pc, prompt, symbols, log, result, inits, tables, nread, stmt>>

----------------------------------------------------------------------------
(* Bounds of the model *)

\* the REPL reads statements while its history is shorter than this
MaxHistory == 2
\* longest apply chain `e -> f -> g ...` of a statement
MaxChain == 2
\* most identifiers the analysis host reports for one span
MaxIdents == 1
\* longest history the lookup specification starts from
MaxLookupHistory == 3
\* most arguments of an application, and largest n of Exactly(n), AtLeast(n)
MaxArgs == 2
\* most elements of a materialized set a function is applied to
MaxSetLen == 3
\* most characters of a lexed input
MaxInput == 4
\* largest offset a lexer is started with
MaxOffset == 2
\* most colon-delimited segments of a location text
MaxSegments == 5
\* most lexemes of a statement text
MaxLexemes == 4
\* most paths a file system finds for one name
MaxPaths == 2
\* largest line and column of a location
MaxLine == 2
\* most elements of a displayed set
MaxShown == 6

MaxGroup == 3

----------------------------------------------------------------------------
(* front/data.rs: Type.  A type is the sequence of its constructors, outermost
   first: Query(Set(Identifier)) is <<"Query", "Set", "Identifier">>. *)

TVoid == <<"Void">>
TNumber == <<"Number">>
TIdentifier == <<"Identifier">>
TLocation == <<"Location">>
TPosition == <<"Position">>
TRange == <<"Range">>
TDefinition == <<"Definition">>
TSet(t) == <<"Set">> \o t
TQuery(t) == <<"Query">> \o t

is_query(t) == t[1] = "Query"

RECURSIVE is_location(_)
is_location(t) ==
    IF t[1] \in {"Location", "Position", "Range"} THEN TRUE
    ELSE IF t[1] \in {"Query", "Set"} THEN is_location(Tail(t))
    ELSE FALSE

RECURSIVE unquery(_)
unquery(t) == IF t[1] = "Query" THEN unquery(Tail(t)) ELSE t

\* expect_set_inner panics on anything but Set(_): <<>> stands for the panic
expect_set_inner(t) == IF t[1] = "Set" THEN <<Tail(t)>> ELSE <<>>

----------------------------------------------------------------------------
(* front/data.rs: Value, ValueKind, Position, Range, Identifier, Definition;
   front/query.rs: Query, Fun.  Every value is a record of the same shape:
     n     the Number, or the id of an Identifier or Definition
     loc   the Position or Range
     elems the elements of a Set
     q     <<query>> for a Query, where a query is its Ready leaf `ready`
           and the Function nodes above it, innermost first, in `fns` *)

NoLoc == [rk |-> "", file |-> 0, line |-> 0, column |-> 0]

MkValue(ty, kind, n, loc, elems, q) ==
    [ty |-> ty, kind |-> kind, n |-> n, loc |-> loc, elems |-> elems, q |-> q]

VoidValue == MkValue(TVoid, "Void", 0, NoLoc, <<>>, <<>>)

IdentifierValue(i) == MkValue(TIdentifier, "Identifier", i, NoLoc, <<>>, <<>>)

\* impl From<Locator> for Value
LocatorValue(l) ==
    IF l.rk = "Position"
    THEN MkValue(TPosition, "Position", 0, l, <<>>, <<>>)
    ELSE MkValue(TRange, "Range", 0, l, <<>>, <<>>)

\* Query::ready
QueryReady(v) == [ready |-> v, fns |-> <<>>]

\* Query::Function(Fun {def, ty, lhs, args: vec![]}) on top of lhs
QueryFunction(def, ty, lhs) ==
    [ready |-> lhs.ready, fns |-> Append(lhs.fns, [def |-> def, ty |-> ty])]

\* impl From<Value> for Query
ValueIntoQuery(v) == IF v.kind = "Query" THEN v.q[1] ELSE QueryReady(v)

----------------------------------------------------------------------------
(* front: Error, and Result.  usize values that a cast may have wrapped are
   kept as [wrap, val], standing for wrap * 2^64 + val. *)

NoErr == [kind |-> "", name |-> "", idx |-> [wrap |-> 0, val |-> 0], bound |-> 0]

ErrKind(k) == [NoErr EXCEPT !.kind = k]
VarNotFound(name) == [NoErr EXCEPT !.kind = "VarNotFound", !.name = name]
NumericVarNotFound(i, b) == [NoErr EXCEPT !.kind = "NumericVarNotFound", !.idx = i, !.bound = b]

Ok(v) == [tag |-> "ok", val |-> <<v>>, err |-> NoErr]
Err(e) == [tag |-> "err", val |-> <<>>, err |-> e]
Panicked == [tag |-> "panic", val |-> <<>>, err |-> NoErr]

\* one entry of `log`: operation, function or method, calling context, a
\* number (index, node or count), values involved, and how it ended
Ev(op, fn, ctx, n, val, res) ==
    [op |-> op, fn |-> fn, ctx |-> ctx, n |-> n, val |-> val, res |-> res]

\* the interpreter state an evaluation threads through: the environment's
\* backend slot, the symbol table and the trace
Logged(st, ev) == [st EXCEPT !.log = Append(@, ev)]

\* names a statement may use for a named variable
Names == {"x", "y", "z"}

NoSymbols == [name \in Names |-> <<>>]

----------------------------------------------------------------------------
(* env/repl.rs: the Environment the REPL gives the interpreter.  `w` holds
   what the outside world answers during one operation:
     w.prev    the history the environment holds
     w.env     "repl" for Repl, "ok"/"err" for an Environment whose lookup_var
               returns Ok(w.envval) or an error
     w.idents  what the analysis host finds: -1 an error, else that many
     w.init    "ok" or "panic": whether building and loading the index works
     w.fs      "ok" or "fail": whether reading a file for display works *)

saturating_sub(a, b) == IF a >= b THEN a - b ELSE 0

\* `id as usize` of an isize
AsUsize(i) == IF i < 0 THEN [wrap |-> 1, val |-> i] ELSE [wrap |-> 0, val |-> i]

Digit(d) ==
    CASE d = 0 -> "0" [] d = 1 -> "1" [] d = 2 -> "2" [] d = 3 -> "3" [] d = 4 -> "4"
      [] d = 5 -> "5" [] d = 6 -> "6" [] d = 7 -> "7" [] d = 8 -> "8" [] d = 9 -> "9"

\* isize::to_string
RECURSIVE to_string(_)
to_string(i) ==
    IF i < 0 THEN "-" \o to_string(0 - i)
    ELSE IF i < 10 THEN Digit(i)
    ELSE to_string(i \div 10) \o Digit(i % 10)

\* a lookup_numeric_var that counts a negative index from one entry too far
lookup_numeric_var_shifted(prev, id0) ==
    LET id == IF id0 < 0 THEN Len(prev) + id0 + 1 ELSE id0
    IN  IF id < 0 \/ id >= Len(prev)
        THEN Err(NumericVarNotFound(AsUsize(id), saturating_sub(Len(prev), 1)))
        ELSE IF prev[id + 1] # <<>>
             THEN Ok(prev[id + 1][1])
             ELSE Err(VarNotFound(to_string(id)))

\* the newest value at or before entry i (counted from 1), if there is one
RECURSIVE OlderValue(_, _)
OlderValue(prev, i) ==
    IF i = 0 THEN <<>>
    ELSE IF prev[i] # <<>> THEN prev[i]
    ELSE OlderValue(prev, i - 1)

\* a lookup_numeric_var that falls back to an older entry when the entry it
\* resolves to holds no value
lookup_numeric_var_fallback(prev, id0) ==
    LET id == IF id0 < 0 THEN Len(prev) + id0 ELSE id0
    IN  IF id < 0 \/ id >= Len(prev)
        THEN Err(NumericVarNotFound(AsUsize(id), saturating_sub(Len(prev), 1)))
        ELSE IF OlderValue(prev, id + 1) # <<>>
             THEN Ok(OlderValue(prev, id + 1)[1])
             ELSE Err(VarNotFound(to_string(id)))

\* Repl::lookup_numeric_var
lookup_numeric_var(prev, id0) ==
    LET id == IF id0 < 0 THEN Len(prev) + id0 ELSE id0
    IN  IF id < 0 \/ id >= Len(prev)
        THEN Err(NumericVarNotFound(AsUsize(id), saturating_sub(Len(prev), 1)))
        ELSE IF prev[id + 1] # <<>>
             THEN Ok(prev[id + 1][1])
             ELSE Err(VarNotFound(to_string(id)))

\* Repl::lookup_var
ReplLookupVar(name) == Err(VarNotFound(name))

\* Environment::lookup_var of the environment in use
EnvLookupVar(w, name) ==
    CASE w.env = "repl" -> ReplLookupVar(name)
      [] w.env = "ok" -> Ok(w.envval)
      [] OTHER -> Err(ErrKind("Other"))

\* Environment::lookup_numeric_var of the environment in use
EnvLookupNumericVar(w, id) ==
    IF w.env = "repl" THEN lookup_numeric_var(w.prev, id) ELSE Err(ErrKind("Other"))

\* a lookup_var that asks the environment without looking at the symbol table
lookup_var_uncached(kind, st, w) ==
    CASE kind.k = "Dollar" ->
            LET r == EnvLookupNumericVar(w, -1)
            IN  [r |-> r, st |-> Logged(st, Ev("lookup_numeric_var", "", "", -1, r.val, r.tag))]
      [] kind.k = "Numeric" ->
            LET r == EnvLookupNumericVar(w, kind.n)
            IN  [r |-> r, st |-> Logged(st, Ev("lookup_numeric_var", "", "", kind.n, r.val, r.tag))]
      [] kind.k = "Named" ->
            LET r == EnvLookupVar(w, kind.name)
                st1 == Logged(st, Ev("lookup_var", kind.name, "", 0, r.val, r.tag))
            IN  IF r.tag = "ok"
                THEN [r |-> r, st |-> [st1 EXCEPT !.symbols[kind.name] = <<r.val[1]>>]]
                ELSE [r |-> r, st |-> st1]

\* Interpreter::lookup_var
lookup_var(kind, st, w) ==
    CASE kind.k = "Dollar" ->
            LET r == EnvLookupNumericVar(w, -1)
            IN  [r |-> r, st |-> Logged(st, Ev("lookup_numeric_var", "", "", -1, r.val, r.tag))]
      [] kind.k = "Numeric" ->
            LET r == EnvLookupNumericVar(w, kind.n)
            IN  [r |-> r, st |-> Logged(st, Ev("lookup_numeric_var", "", "", kind.n, r.val, r.tag))]
      [] kind.k = "Named" ->
            IF st.symbols[kind.name] # <<>>
            THEN [r |-> Ok(st.symbols[kind.name][1]), st |-> st]
            ELSE LET r == EnvLookupVar(w, kind.name)
                     st1 == Logged(st, Ev("lookup_var", kind.name, "", 0, r.val, r.tag))
                 IN  IF r.tag = "ok"
                     THEN [r |-> r,
                           st |-> [st1 EXCEPT !.symbols[kind.name] = <<r.val[1]>>]]
                     ELSE [r |-> r, st |-> st1]

\* a backend() that builds a new Rls on every call
backendFresh(st, w) ==
    IF w.init = "panic"
    THEN [r |-> Panicked,
          st |-> Logged([st EXCEPT !.inits = @ + 1],
                        Ev("Rls::init", "", "", st.inits + 1, <<>>, "panic"))]
    ELSE [r |-> Ok(st.inits + 1),
          st |-> Logged(Logged([st EXCEPT !.rls = <<st.inits + 1>>, !.inits = @ + 1],
                               Ev("Rls::init", "", "", st.inits + 1, <<>>, "ok")),
                        Ev("backend", "", "", st.inits + 1, <<>>, "ok"))]

\* Repl::backend
backend(st, w) ==
    IF st.rls # <<>>
    THEN [r |-> Ok(st.rls[1]), st |-> Logged(st, Ev("backend", "", "", st.rls[1], <<>>, "ok"))]
    ELSE IF w.init = "panic"
         THEN [r |-> Panicked,
               st |-> Logged([st EXCEPT !.inits = @ + 1],
                             Ev("Rls::init", "", "", st.inits + 1, <<>>, "panic"))]
         ELSE [r |-> Ok(st.inits + 1),
               st |-> Logged(Logged([st EXCEPT !.rls = <<st.inits + 1>>, !.inits = @ + 1],
                                    Ev("Rls::init", "", "", st.inits + 1, <<>>, "ok")),
                             Ev("backend", "", "", st.inits + 1, <<>>, "ok"))]

----------------------------------------------------------------------------
(* back/mod.rs, back/rls.rs: the Backend of the REPL is Rls.  Both of its
   methods ask the analysis host for the identifiers of a span. *)

IdentIds(n) == [i \in 1..n |-> i]

\* Rls::ident_at: an error, or the first identifier found if there is one
ident_at(p, w) ==
    IF w.idents < 0 THEN Err(ErrKind("Backend"))
    ELSE IF w.idents = 0 THEN Ok(<<>>)
    ELSE Ok(<<IdentIds(w.idents)[1]>>)

\* Rls::idents_in, with IntoWithFs<RlsSpan> for Range
idents_in(r, w) ==
    IF r.rk \notin {"Line", "Span"} THEN Err(ErrKind("Backend"))
    ELSE IF w.idents < 0 THEN Err(ErrKind("Backend"))
    ELSE Ok(IdentIds(w.idents))

\* Backend::definition: Rls does not override the default
definition(id, w) == Err(ErrKind("NotImplemented"))

----------------------------------------------------------------------------
(* front/query.rs: forcing a query.  `k` is the number of Function nodes of
   q.fns that are part of the query being forced, 0 for the Ready leaf;
   `ctx` names the function whose eval rule forces. *)

IdentifierSet(ids, ty) ==
    MkValue(ty, "Set", 0, NoLoc, [i \in 1..Len(ids) |-> IdentifierValue(ids[i])], <<>>)

DefinitionValue(i) == MkValue(TDefinition, "Definition", i, NoLoc, <<>>, <<>>)

\* the `?` of back::Error into front::Error
BackendQ(r) == Err(ErrKind("Backend"))

\* impl Function for Pick, after the lhs has been forced to `lhs`
QueryPickEval(f, lhs, st, w, ctx, k) ==
    IF lhs.kind = "Set"
    THEN IF Len(lhs.elems) = 0
         THEN [r |-> Panicked, st |-> Logged(st, Ev("index", "Pick", ctx, k, <<>>, "panic"))]
         ELSE [r |-> Ok(lhs.elems[1]), st |-> st]
    ELSE [r |-> Err(ErrKind("TypeError")), st |-> st]

\* impl Function for Idents, after the lhs has been forced to `lhs`
QueryIdentsEval(f, lhs, st, w, ctx, k) ==
    CASE lhs.kind = "Position" ->
            LET b == ident_at(lhs.loc, w)
                st1 == Logged(st, Ev("call", "ident_at", ctx, k, <<>>, b.tag))
            IN  IF b.tag # "ok" THEN [r |-> BackendQ(b), st |-> st1]
                ELSE [r |-> Ok(IdentifierSet(b.val[1], f.ty)), st |-> st1]
      [] lhs.kind = "Range" ->
            LET b == idents_in(lhs.loc, w)
                st1 == Logged(st, Ev("call", "idents_in", ctx, k, <<>>, b.tag))
            IN  IF b.tag # "ok" THEN [r |-> BackendQ(b), st |-> st1]
                ELSE [r |-> Ok(IdentifierSet(b.val[1], f.ty)), st |-> st1]
      [] lhs.kind = "Set" ->
            [r |-> Panicked, st |-> Logged(st, Ev("unimplemented", "Idents", ctx, k, <<>>, "panic"))]
      [] OTHER -> [r |-> Err(ErrKind("TypeError")), st |-> st]

\* impl Function for Definition, after the lhs has been forced to `lhs`
QueryDefinitionEval(f, lhs, st, w, ctx, k) ==
    CASE lhs.kind = "Identifier" ->
            LET b == definition(lhs.n, w)
                st1 == Logged(st, Ev("call", "definition", ctx, k, <<>>, b.tag))
            IN  IF b.tag # "ok" THEN [r |-> BackendQ(b), st |-> st1]
                ELSE [r |-> Ok(DefinitionValue(b.val[1])), st |-> st1]
      [] lhs.kind = "Set" ->
            [r |-> Panicked, st |-> Logged(st, Ev("unimplemented", "Definition", ctx, k, <<>>, "panic"))]
      [] OTHER -> [r |-> Err(ErrKind("TypeError")), st |-> st]

\* Query::eval on Ready(v)
QueryReadyEval(v) == Ok(v)

\* a Query::eval that forces the lhs of a Function node a second time
RECURSIVE QueryEvalTwice(_, _, _, _, _)
QueryEvalTwice(q, k, st, w, ctx) ==
    IF k = 0
    THEN LET r == QueryReadyEval(q.ready)
         IN  [r |-> r, st |-> Logged(st, Ev("ready", "", ctx, 0, <<q.ready>> \o r.val, r.tag))]
    ELSE LET f == q.fns[k]
             l0 == QueryEvalTwice(q, k - 1, Logged(st, Ev("force", f.def, ctx, k, <<>>, "")), w, ctx)
             l == QueryEvalTwice(q, k - 1, l0.st, w, ctx)
         IN  IF l.r.tag # "ok" THEN l
             ELSE CASE f.def = "Pick" -> QueryPickEval(f, l.r.val[1], l.st, w, ctx, k)
                    [] f.def = "Idents" -> QueryIdentsEval(f, l.r.val[1], l.st, w, ctx, k)
                    [] f.def = "Definition" -> QueryDefinitionEval(f, l.r.val[1], l.st, w, ctx, k)

\* Query::eval
RECURSIVE QueryEval(_, _, _, _, _)
QueryEval(q, k, st, w, ctx) ==
    IF k = 0
    THEN LET r == QueryReadyEval(q.ready)
         IN  [r |-> r, st |-> Logged(st, Ev("ready", "", ctx, 0, <<q.ready>> \o r.val, r.tag))]
    ELSE LET f == q.fns[k]
             l == QueryEval(q, k - 1, Logged(st, Ev("force", f.def, ctx, k, <<>>, "")), w, ctx)
         IN  IF l.r.tag # "ok" THEN l
             ELSE CASE f.def = "Pick" -> QueryPickEval(f, l.r.val[1], l.st, w, ctx, k)
                    [] f.def = "Idents" -> QueryIdentsEval(f, l.r.val[1], l.st, w, ctx, k)
                    [] f.def = "Definition" -> QueryDefinitionEval(f, l.r.val[1], l.st, w, ctx, k)

\* Query::eval of a whole query
Force(q, st, w, ctx) == QueryEval(q, Len(q.fns), st, w, ctx)

----------------------------------------------------------------------------
(* front/data.rs: displaying a value.  Display fails when it has to read a
   file and the file system fails. *)

RECURSIVE ShowReadsFile(_)
ShowReadsFile(v) ==
    CASE v.kind = "Position" -> TRUE
      [] v.kind = "Range" -> v.loc.rk \in {"Line", "Span"}
      [] v.kind = "Definition" -> TRUE
      [] v.kind = "Set" ->
            Len(v.elems) < 5 /\ \E i \in 1..Len(v.elems) : ShowReadsFile(v.elems[i])
      [] OTHER -> FALSE

\* Show::show of a value: TRUE when it writes the text, FALSE when it fails
ValueShow(v, w) == ~(ShowReadsFile(v) /\ w.fs = "fail")

\* Show::show_str: the text, or a panic on the unwrap of a failed show
show_str(v, w) == IF ValueShow(v, w) THEN Ok(v) ELSE Panicked

\* Repl::show
ReplShow(v, st, w, ctx) ==
    LET s == show_str(v, w)
    IN  IF s.tag = "panic"
        THEN [r |-> Panicked, st |-> Logged(st, Ev("show", "", ctx, 0, <<v>>, "panic"))]
        ELSE [r |-> Ok(VoidValue), st |-> Logged(st, Ev("show", "", ctx, 0, <<v>>, "ok"))]

----------------------------------------------------------------------------
(* file_system: resolving a location literal.  A parsed location holds its
   optional parts as <<>> or <<part>>. *)

Location(file, line, column) == [file |-> file, line |-> line, column |-> column]

\* the files below the root of the REPL's file system
FilesOnDisk == {"foo.rs"}

\* PhysicalFs::find: the one path of that name, or the error of canonicalize
PhysicalFind(name) ==
    IF name \in FilesOnDisk THEN Ok(<<1>>) ELSE Err(ErrKind("FileSystem"))

\* a resolve_location that keeps the one-based line and column of the text
resolve_location_one_based(loc, found) ==
    IF loc.file = <<>> THEN Err(ErrKind("FileSystem"))
    ELSE IF found.tag # "ok" THEN found
    ELSE LET paths == found.val[1]
         IN  IF Len(paths) = 0 THEN Err(ErrKind("FileSystem"))
             ELSE IF Len(paths) > 1
             THEN IF loc.line # <<>> \/ loc.column # <<>>
                  THEN Err(ErrKind("FileSystem"))
                  ELSE Ok([rk |-> "MultiFile", file |-> paths[1], line |-> 0, column |-> 0])
             ELSE LET path == paths[Len(paths)]
                  IN  IF loc.line # <<>> /\ loc.line[1] > 0
                      THEN IF loc.column # <<>> /\ loc.column[1] > 0
                           THEN Ok([rk |-> "Position", file |-> path,
                                    line |-> loc.line[1], column |-> loc.column[1]])
                           ELSE Ok([rk |-> "Line", file |-> path,
                                    line |-> loc.line[1], column |-> 0])
                      ELSE Ok([rk |-> "File", file |-> path, line |-> 0, column |-> 0])

\* file_system::resolve_location, given what fs.find returned for loc.file
resolve_location(loc, found) ==
    IF loc.file = <<>> THEN Err(ErrKind("FileSystem"))
    ELSE IF found.tag # "ok" THEN found
    ELSE LET paths == found.val[1]
         IN  IF Len(paths) = 0 THEN Err(ErrKind("FileSystem"))
             ELSE IF Len(paths) > 1
             THEN IF loc.line # <<>> \/ loc.column # <<>>
                  THEN Err(ErrKind("FileSystem"))
                  ELSE Ok([rk |-> "MultiFile", file |-> paths[1], line |-> 0, column |-> 0])
             ELSE LET path == paths[Len(paths)]
                  IN  IF loc.line # <<>> /\ loc.line[1] > 0
                      THEN IF loc.column # <<>> /\ loc.column[1] > 0
                           THEN Ok([rk |-> "Position", file |-> path,
                                    line |-> loc.line[1] - 1, column |-> loc.column[1] - 1])
                           ELSE Ok([rk |-> "Line", file |-> path,
                                    line |-> loc.line[1] - 1, column |-> 0])
                      ELSE Ok([rk |-> "File", file |-> path, line |-> 0, column |-> 0])

\* PhysicalFs::resolve_location
PhysicalResolveLocation(loc) ==
    resolve_location(loc, IF loc.file = <<>> THEN Err(ErrKind("FileSystem"))
                          ELSE PhysicalFind(loc.file[1]))

----------------------------------------------------------------------------
(* front/function.rs: the functions.  An expression is a base expression
   `base` and the chain `chain` of applications `-> f args` on top of it;
   (e, k) is the expression made of the base and the first k applications.
   Of an application only the number of arguments matters. *)

Arity(k, n) == [k |-> k, n |-> n]

\* an arity check that accepts every argument list
ArityCheckLax(arity, l) == TRUE

\* Arity::check on an argument list of length l
ArityCheck(arity, l) ==
    CASE arity.k = "None" /\ l = 0 -> TRUE
      [] arity.k = "Exactly" /\ l = arity.n -> TRUE
      [] arity.k = "AtLeast" /\ l >= arity.n -> TRUE
      [] OTHER -> FALSE

FnNames == {"show", "select", "pick", "idents", "def"}

\* Arity::check, as the Result it returns
ArityCheckResult(arity, l) ==
    IF ArityCheck(arity, l) THEN Ok(VoidValue) ELSE Err(ErrKind("TypeError"))

\* Function::ARITY of each function
FnArity(fn) == Arity("None", 0)

\* Environment::show of the environment in use (MockEnv::show returns an error)
EnvShow(v, st, w, ctx) ==
    IF w.env = "repl" THEN ReplShow(v, st, w, ctx)
    ELSE [r |-> Err(ErrKind("Other")), st |-> Logged(st, Ev("show", "", ctx, 0, <<v>>, "err"))]

\* the call of the method named op of the interpreter or of its environment
\* on the arguments a
RECURSIVE Call(_, _)

TypeError(st) == [r |-> Err(ErrKind("TypeError")), st |-> st]

\* Show::eval
ShowEval(e, k, st, w) ==
    LET l == Call("InterpretExpr", <<e, k - 1, st, w>>)
    IN  IF l.r.tag # "ok" THEN l
        ELSE LET lhs == l.r.val[1]
             IN  IF is_query(lhs.ty)
                 THEN IF lhs.kind # "Query"
                      THEN [r |-> Panicked,
                            st |-> Logged(l.st, Ev("expect_query", "show", "", k, <<>>, "panic"))]
                      ELSE LET b == Call("backend", <<l.st, w>>)
                           IN  IF b.r.tag # "ok" THEN [r |-> b.r, st |-> b.st]
                               ELSE LET v == Call("Force", <<lhs.q[1], b.st, w, "show">>)
                                    IN  IF v.r.tag # "ok" THEN v
                                        ELSE LET sh == Call("EnvShow", <<v.r.val[1], v.st, w, "show">>)
                                             IN  IF sh.r.tag # "ok" THEN sh
                                                 ELSE [r |-> Ok(VoidValue), st |-> sh.st]
                 ELSE LET sh == Call("EnvShow", <<lhs, l.st, w, "show">>)
                      IN  IF sh.r.tag # "ok" THEN sh
                          ELSE [r |-> Ok(VoidValue), st |-> sh.st]

\* Show::ty
ShowTy(e, k, st, w) == [r |-> Ok(TVoid), st |-> st]

\* Select::eval
SelectEval(e, k, st, w) ==
    LET l == Call("InterpretExpr", <<e, k - 1, st, w>>)
    IN  IF l.r.tag # "ok" THEN l
        ELSE LET lhs == l.r.val[1]
             IN  IF lhs.kind = "Query"
                 THEN LET b == Call("backend", <<l.st, w>>)
                      IN  IF b.r.tag # "ok" THEN [r |-> b.r, st |-> b.st]
                          ELSE Call("Force", <<lhs.q[1], b.st, w, "select">>)
                 ELSE TypeError(l.st)

\* Select::ty
SelectTy(e, k, st, w) ==
    LET t == Call("TypeExpr", <<e, k - 1, st, w>>)
    IN  IF t.r.tag # "ok" THEN t
        ELSE IF is_query(t.r.val[1]) THEN [r |-> Ok(Tail(t.r.val[1])), st |-> t.st]
        ELSE TypeError(t.st)

\* a Pick::eval that takes the first element of a set without looking at
\* its length, as query::Pick::eval does
PickEvalIndexing(e, k, st, w) ==
    LET l == Call("InterpretExpr", <<e, k - 1, st, w>>)
    IN  IF l.r.tag # "ok" THEN l
        ELSE LET lhs == l.r.val[1]
             IN  CASE lhs.kind = "Query" ->
                        LET ty == expect_set_inner(unquery(lhs.ty))
                        IN  IF ty = <<>>
                            THEN [r |-> Panicked,
                                  st |-> Logged(l.st, Ev("expect_set_inner", "pick", "", k, <<>>, "panic"))]
                            ELSE [r |-> Ok(MkValue(TQuery(ty[1]), "Query", 0, NoLoc, <<>>,
                                              <<QueryFunction("Pick", ty[1], ValueIntoQuery(lhs))>>)),
                                  st |-> l.st]
                   [] lhs.kind = "Set" /\ Len(lhs.elems) = 0 ->
                        [r |-> Panicked, st |-> Logged(l.st, Ev("index", "pick", "", k, <<>>, "panic"))]
                   [] lhs.kind = "Set" /\ Len(lhs.elems) > 0 ->
                        [r |-> Ok(lhs.elems[1]), st |-> l.st]
                   [] OTHER -> TypeError(l.st)

\* Pick::eval
PickEval(e, k, st, w) ==
    LET l == Call("InterpretExpr", <<e, k - 1, st, w>>)
    IN  IF l.r.tag # "ok" THEN l
        ELSE LET lhs == l.r.val[1]
             IN  CASE lhs.kind = "Query" ->
                        LET ty == expect_set_inner(unquery(lhs.ty))
                        IN  IF ty = <<>>
                            THEN [r |-> Panicked,
                                  st |-> Logged(l.st, Ev("expect_set_inner", "pick", "", k, <<>>, "panic"))]
                            ELSE [r |-> Ok(MkValue(TQuery(ty[1]), "Query", 0, NoLoc, <<>>,
                                              <<QueryFunction("Pick", ty[1], ValueIntoQuery(lhs))>>)),
                                  st |-> l.st]
                   [] lhs.kind = "Set" /\ Len(lhs.elems) = 0 ->
                        [r |-> Err(ErrKind("EmptySet")), st |-> l.st]
                   [] lhs.kind = "Set" /\ Len(lhs.elems) > 0 ->
                        [r |-> Ok(lhs.elems[1]), st |-> l.st]
                   [] OTHER -> TypeError(l.st)

\* Pick::ty
PickTy(e, k, st, w) ==
    LET t == Call("TypeExpr", <<e, k - 1, st, w>>)
    IN  IF t.r.tag # "ok" THEN t
        ELSE LET lhs_ty == t.r.val[1]
                 u == unquery(lhs_ty)
             IN  IF u[1] # "Set" THEN TypeError(t.st)
                 ELSE IF is_query(lhs_ty) THEN [r |-> Ok(TQuery(Tail(u))), st |-> t.st]
                 ELSE [r |-> Ok(Tail(u)), st |-> t.st]

\* an eval rule of idents that forces the query it has built
IdentsEvalForcing(e, k, st, w) ==
    LET l == Call("InterpretExpr", <<e, k - 1, st, w>>)
    IN  IF l.r.tag # "ok" THEN l
        ELSE LET b == Call("backend", <<l.st, w>>)
             IN  IF b.r.tag # "ok" THEN [r |-> b.r, st |-> b.st]
                 ELSE Call("Force", <<QueryFunction("Idents", TSet(TIdentifier),
                                                    ValueIntoQuery(l.r.val[1])),
                                      b.st, w, "idents">>)

\* Idents::eval
IdentsEval(e, k, st, w) ==
    LET l == Call("InterpretExpr", <<e, k - 1, st, w>>)
    IN  IF l.r.tag # "ok" THEN l
        ELSE [r |-> Ok(MkValue(TQuery(TSet(TIdentifier)), "Query", 0, NoLoc, <<>>,
                          <<QueryFunction("Idents", TSet(TIdentifier), ValueIntoQuery(l.r.val[1]))>>)),
              st |-> l.st]

\* Idents::ty
IdentsTy(e, k, st, w) ==
    LET t == Call("TypeExpr", <<e, k - 1, st, w>>)
    IN  IF t.r.tag # "ok" THEN t
        ELSE IF ~is_location(t.r.val[1]) THEN TypeError(t.st)
        ELSE [r |-> Ok(TQuery(TSet(TIdentifier))), st |-> t.st]

\* Definition::eval
DefinitionEval(e, k, st, w) ==
    LET l == Call("InterpretExpr", <<e, k - 1, st, w>>)
    IN  IF l.r.tag # "ok" THEN l
        ELSE LET lhs == l.r.val[1]
             IN  [r |-> Ok(MkValue(lhs.ty, "Query", 0, NoLoc, <<>>,
                              <<QueryFunction("Definition", lhs.ty, ValueIntoQuery(lhs))>>)),
                  st |-> l.st]

\* Definition::ty
DefinitionTy(e, k, st, w) ==
    LET t == Call("TypeExpr", <<e, k - 1, st, w>>)
    IN  IF t.r.tag # "ok" THEN t
        ELSE LET u == unquery(t.r.val[1])
             IN  CASE u = TIdentifier -> [r |-> Ok(TQuery(TDefinition)), st |-> t.st]
                   [] u = TSet(TIdentifier) -> [r |-> Ok(TQuery(TSet(TDefinition))), st |-> t.st]
                   [] OTHER -> TypeError(t.st)

\* Function::ty of the function named fn
FnTy(fn, e, k, st, w) ==
    CASE fn = "show" -> ShowTy(e, k, st, w)
      [] fn = "select" -> SelectTy(e, k, st, w)
      [] fn = "pick" -> PickTy(e, k, st, w)
      [] fn = "idents" -> IdentsTy(e, k, st, w)
      [] fn = "def" -> DefinitionTy(e, k, st, w)

\* Function::eval of the function named fn
FnEval(fn, e, k, st, w) ==
    CASE fn = "show" -> ShowEval(e, k, st, w)
      [] fn = "select" -> SelectEval(e, k, st, w)
      [] fn = "pick" -> PickEval(e, k, st, w)
      [] fn = "idents" -> IdentsEval(e, k, st, w)
      [] fn = "def" -> DefinitionEval(e, k, st, w)

----------------------------------------------------------------------------
(* front/mod.rs: the interpreter *)

\* the dispatch of an application to its function: unknown names are an
\* error, then the arity check, then the type rule, then the eval rule
InterpretApply(e, k, st, w) ==
    LET a == e.chain[k]
    IN  IF a.fn \notin FnNames
        THEN [r |-> Err(ErrKind("Other")),
              st |-> Logged(st, Ev("unknown", a.fn, "interpret", k, <<>>, "err"))]
        ELSE IF ~ArityCheck(FnArity(a.fn), a.nargs)
        THEN [r |-> Err(ErrKind("TypeError")),
              st |-> Logged(st, Ev("arity", a.fn, "interpret", k, <<>>, "err"))]
        ELSE LET t == Call("FnTy", <<a.fn, e, k, st, w>>)
                 st1 == Logged(t.st, Ev("ty", a.fn, "interpret", k, <<>>, t.r.tag))
             IN  IF t.r.tag # "ok" THEN [r |-> t.r, st |-> st1]
                 ELSE Call("FnEval", <<a.fn, e, k,
                                       Logged(st1, Ev("eval", a.fn, "interpret", k, <<>>, "")), w>>)

\* the type of an application: the arity check, then the type rule
TypeApply(e, k, st, w) ==
    LET a == e.chain[k]
    IN  IF a.fn \notin FnNames
        THEN [r |-> Err(ErrKind("Other")),
              st |-> Logged(st, Ev("unknown", a.fn, "type_expr", k, <<>>, "err"))]
        ELSE IF ~ArityCheck(FnArity(a.fn), a.nargs)
        THEN [r |-> Err(ErrKind("TypeError")),
              st |-> Logged(st, Ev("arity", a.fn, "type_expr", k, <<>>, "err"))]
        ELSE LET t == Call("FnTy", <<a.fn, e, k, st, w>>)
             IN  [r |-> t.r, st |-> Logged(t.st, Ev("ty", a.fn, "type_expr", k, <<>>, t.r.tag))]

\* Interpreter::interpret_expr on a base expression
InterpretBase(b, st, w) ==
    CASE b.k = "Void" -> [r |-> Ok(VoidValue), st |-> st]
      [] b.k \in {"Dollar", "Numeric", "Named"} -> Call("lookup_var", <<b, st, w>>)
      [] b.k = "Location" ->
            LET l == PhysicalResolveLocation(b.loc)
            IN  IF l.tag # "ok" THEN [r |-> Err(ErrKind("FileSystem")), st |-> st]
                ELSE [r |-> Ok(LocatorValue(l.val[1])), st |-> st]

\* Interpreter::interpret_expr
InterpretExpr(e, k, st, w) ==
    IF k = 0 THEN InterpretBase(e.base, st, w) ELSE InterpretApply(e, k, st, w)

\* Interpreter::type_expr on a base expression: a variable has the type of
\* the value it is bound to
TypeBase(b, st, w) ==
    CASE b.k = "Void" -> [r |-> Ok(TVoid), st |-> st]
      [] b.k \in {"Dollar", "Numeric", "Named"} ->
            LET l == Call("lookup_var", <<b, st, w>>)
            IN  IF l.r.tag # "ok" THEN l ELSE [r |-> Ok(l.r.val[1].ty), st |-> l.st]
      [] b.k = "Location" -> [r |-> Ok(TLocation), st |-> st]

\* Interpreter::type_expr
TypeExpr(e, k, st, w) ==
    IF k = 0 THEN TypeBase(e.base, st, w) ELSE TypeApply(e, k, st, w)

\* Repl::exec_meta
ReplExecMeta(mk, st) ==
    IF mk = "Exit"
    THEN [r |-> [tag |-> "exit", val |-> <<>>, err |-> NoErr],
          st |-> Logged(st, Ev("exit", "", "", 0, <<>>, ""))]
    ELSE [r |-> Ok(VoidValue), st |-> Logged(st, Ev("help", "", "", 0, <<>>, "ok"))]

\* Interpreter::interpret_stmt on an expression statement: evaluate, display
InterpretStmtExpr(e, st, w) ==
    LET v == Call("InterpretExpr", <<e, Len(e.chain), st, w>>)
    IN  IF v.r.tag # "ok" THEN v
        ELSE LET sh == Call("EnvShow", <<v.r.val[1], v.st, w, "stmt">>)
             IN  IF sh.r.tag # "ok" THEN sh ELSE [r |-> v.r, st |-> sh.st]

\* Interpreter::interpret_stmt on `f e`: the application is interpreted
InterpretStmtShorthand(e, st, w) == InterpretApply(e, Len(e.chain), st, w)

\* Interpreter::interpret_stmt
interpret_stmt(s, st, w) ==
    CASE s.kind = "Expr" -> InterpretStmtExpr(s.e, st, w)
      [] s.kind = "ApplyShorthand" -> InterpretStmtShorthand(s.e, st, w)
      [] s.kind = "Meta" -> ReplExecMeta(s.mk, st)

Call(op, a) ==
    CASE op = "InterpretExpr" -> InterpretExpr(a[1], a[2], a[3], a[4])
      [] op = "TypeExpr" -> TypeExpr(a[1], a[2], a[3], a[4])
      [] op = "FnTy" -> FnTy(a[1], a[2], a[3], a[4], a[5])
      [] op = "FnEval" -> FnEval(a[1], a[2], a[3], a[4], a[5])
      [] op = "lookup_var" -> lookup_var(a[1], a[2], a[3])
      [] op = "backend" -> backend(a[1], a[2])
      [] op = "Force" -> Force(a[1], a[2], a[3], a[4])
      [] op = "EnvShow" -> EnvShow(a[1], a[2], a[3], a[4])
      [] op = "interpret_stmt" -> interpret_stmt(a[1], a[2], a[3])

\* Interpreter::new
InterpreterNew(st) == [st EXCEPT !.symbols = NoSymbols, !.tables = @ + 1]

----------------------------------------------------------------------------
(* The statements and the outside world the REPL is run on *)

Base(k, n, name, loc) == [k |-> k, n |-> n, name |-> name, loc |-> loc]
NoLocation == Location(<<>>, <<>>, <<>>)

ReplLocations ==
    { Location(<<"foo.rs">>, <<1>>, <<1>>),
      Location(<<"foo.rs">>, <<1>>, <<>>),
      NoLocation }

ReplBases ==
    {Base("Void", 0, "", NoLocation), Base("Dollar", 0, "", NoLocation),
     Base("Named", 0, "x", NoLocation)}
    \cup {Base("Numeric", n, "", NoLocation) : n \in {0, -2}}
    \cup {Base("Location", 0, "", l) : l \in ReplLocations}

Applications ==
    {[fn |-> f, nargs |-> 0] : f \in FnNames \cup {"bogus"}}
    \cup {[fn |-> "show", nargs |-> 1]}

Chains == UNION {[1..n -> Applications] : n \in 0..MaxChain}

Exprs == {[base |-> b, chain |-> c] : b \in ReplBases, c \in Chains}

Stmt(kind, e, mk) == [kind |-> kind, e |-> e, mk |-> mk]
NoExpr == [base |-> Base("Void", 0, "", NoLocation), chain |-> <<>>]

Statements ==
    {Stmt("Expr", e, "") : e \in Exprs}
    \cup {Stmt("ApplyShorthand", e, "") : e \in {x \in Exprs : Len(x.chain) = 1}}
    \cup {Stmt("Meta", NoExpr, mk) : mk \in {"Exit", "Help"}}

Worlds ==
    [prev : {<<>>}, env : {"repl"}, envval : {VoidValue},
     idents : -1..MaxIdents, init : {"ok", "panic"}, fs : {"ok", "fail"}]

----------------------------------------------------------------------------
(* env/repl.rs: Repl::new and Repl::run *)

Init ==
    /\ prev_results = <<>>
    /\ rls = <<>>
    /\ pc = "prompt"
    /\ prompt = 0
    /\ symbols = NoSymbols
    /\ log = <<>>
    /\ result = <<>>
    /\ inits = 0
    /\ tables = 0
    /\ nread = 0
    /\ stmt = <<>>

\* Repl::prompt, printed at the head of the loop
Prompt ==
    /\ pc = "prompt"
    /\ prompt' = Len(prev_results)
    /\ pc' = "read"
    /\ log' = <<>>
    /\ result' = <<>>
    /\ stmt' = <<>>
    /\ UNCHANGED <<prev_results, rls, symbols, inits, tables, nread>>

\* a line on which parse_stmt returns EmptyInput
ReadEmpty ==
    /\ pc = "read"
    /\ pc' = "prompt"
    /\ UNCHANGED <<prev_results, rls, prompt, symbols, log, result, inits, tables, nread, stmt>>

\* a line on which parse_stmt returns a Lexing or a Parsing error
ReadBad ==
    /\ pc = "read"
    /\ Len(prev_results) < MaxHistory
    /\ \E k \in {"Lexing", "Parsing"} :
          log' = IF k = "Lexing"
                 THEN <<Ev("print", "caret", "", 0, <<>>, ""), Ev("print", "msg", "", 0, <<>>, "")>>
                 ELSE <<Ev("print", "msg", "", 0, <<>>, "")>>
    /\ prev_results' = Append(prev_results, <<>>)
    /\ nread' = nread + 1
    /\ pc' = "prompt"
    /\ UNCHANGED <<rls, prompt, symbols, result, inits, tables, stmt>>

\* Repl::interpret on the statement s, in the world w
ReplInterpret(s, w) ==
    LET st0 == InterpreterNew([rls |-> rls, inits |-> inits, symbols |-> symbols,
                               tables |-> tables, log |-> <<>>])
        out == Call("interpret_stmt", <<s, st0, w>>)
    IN  /\ rls' = out.st.rls
        /\ inits' = out.st.inits
        /\ symbols' = out.st.symbols
        /\ tables' = out.st.tables
        /\ result' = <<out.r>>
        /\ CASE out.r.tag = "ok" ->
                  /\ prev_results' = Append(prev_results, out.r.val)
                  /\ log' = out.st.log
                  /\ pc' = "prompt"
             [] out.r.tag = "err" ->
                  /\ prev_results' = Append(prev_results, <<>>)
                  /\ log' = Append(out.st.log, Ev("print", "Error", "", 0, <<>>, ""))
                  /\ pc' = "prompt"
             [] out.r.tag = "exit" ->
                  /\ prev_results' = prev_results
                  /\ log' = out.st.log
                  /\ pc' = "exited"
             [] out.r.tag = "panic" ->
                  /\ prev_results' = prev_results
                  /\ log' = out.st.log
                  /\ pc' = "panicked"

\* a line on which parse_stmt returns the statement s
ReadStatement ==
    /\ pc = "read"
    /\ Len(prev_results) < MaxHistory
    /\ \E s \in Statements, w0 \in Worlds :
          /\ ReplInterpret(s, [w0 EXCEPT !.prev = prev_results])
          /\ stmt' = <<s>>
    /\ nread' = nread + 1
    /\ UNCHANGED prompt

Next == Prompt \/ ReadEmpty \/ ReadBad \/ ReadStatement

Spec == Init /\ [][Next]_vars

----------------------------------------------------------------------------
(* Variable lookups on their own: Repl::lookup_numeric_var over the histories
   a session can have built, and Interpreter::lookup_var of a named variable
   against an Environment whose lookup_var may succeed *)

HistoryEntries == {<<>>, <<VoidValue>>, <<IdentifierValue(1)>>}

Histories == UNION {[1..n -> HistoryEntries] : n \in 0..MaxLookupHistory}

Indices == (0 - MaxLookupHistory - 1)..MaxLookupHistory

Idle(st) ==
    /\ rls = <<>>
    /\ pc = "interp"
    /\ prompt = 0
    /\ inits = 0
    /\ tables = st
    /\ nread = 0

InitLookup ==
    /\ prev_results \in Histories
    /\ symbols = NoSymbols
    /\ log = <<>>
    /\ result = <<>>
    /\ stmt = <<>>
    /\ Idle(1)

\* the world of a lookup against the Repl
ReplWorld ==
    [prev |-> prev_results, env |-> "repl", envval |-> VoidValue,
     idents |-> 0, init |-> "ok", fs |-> "ok"]

\* the interpreter state a lookup starts from
LookupState ==
    [rls |-> rls, inits |-> inits, symbols |-> symbols, tables |-> tables, log |-> <<>>]

\* Interpreter::lookup_var(Dollar) with the Repl as its environment
LookupDollar ==
    LET kind == Base("Dollar", 0, "", NoLocation)
        out == lookup_var(kind, LookupState, ReplWorld)
    IN  /\ result' = <<out.r>>
        /\ log' = out.st.log
        /\ symbols' = out.st.symbols
        /\ stmt' = <<kind>>
        /\ UNCHANGED <<prev_results, rls, pc, prompt, inits, tables, nread>>

\* Interpreter::lookup_var(Numeric(n)) with the Repl as its environment
LookupNumeric ==
    \E n \in Indices :
       LET kind == Base("Numeric", n, "", NoLocation)
           out == lookup_var(kind, LookupState, ReplWorld)
       IN  /\ result' = <<out.r>>
           /\ log' = out.st.log
           /\ symbols' = out.st.symbols
           /\ stmt' = <<kind>>
           /\ UNCHANGED <<prev_results, rls, pc, prompt, inits, tables, nread>>

NextLookup == LookupDollar \/ LookupNumeric

SpecLookup == InitLookup /\ [][NextLookup]_vars

\* what an Environment may return for a named variable
EnvValues == {VoidValue, IdentifierValue(1), IdentifierValue(2)}

InitInterp ==
    /\ prev_results = <<>>
    /\ symbols = NoSymbols
    /\ log = <<>>
    /\ result = <<>>
    /\ stmt = <<>>
    /\ Idle(1)

\* the world of a lookup against an environment that answers envr
EnvWorld(envr, v) ==
    [prev |-> prev_results, env |-> envr, envval |-> v,
     idents |-> 0, init |-> "ok", fs |-> "ok"]

\* Interpreter::lookup_var(Named(name)) with an environment whose lookup_var
\* returns Ok(v)
LookupNamedFound ==
    \E name \in Names, v \in EnvValues :
       LET kind == Base("Named", 0, name, NoLocation)
           out == lookup_var(kind, LookupState, EnvWorld("ok", v))
       IN  /\ result' = <<out.r>>
           /\ log' = out.st.log
           /\ symbols' = out.st.symbols
           /\ stmt' = <<kind>>
           /\ UNCHANGED <<prev_results, rls, pc, prompt, inits, tables, nread>>

\* Interpreter::lookup_var(Named(name)) with an environment whose lookup_var
\* returns an error
LookupNamedMissing ==
    \E name \in Names :
       LET kind == Base("Named", 0, name, NoLocation)
           out == lookup_var(kind, LookupState, EnvWorld("err", VoidValue))
       IN  /\ result' = <<out.r>>
           /\ log' = out.st.log
           /\ symbols' = out.st.symbols
           /\ stmt' = <<kind>>
           /\ UNCHANGED <<prev_results, rls, pc, prompt, inits, tables, nread>>

NextInterp == LookupNamedFound \/ LookupNamedMissing

SpecInterp == InitInterp /\ [][NextInterp]_vars

----------------------------------------------------------------------------
(* Arity checks on their own, and the REPL on statements `e -> f a1 .. an`
   that give a function up to MaxArgs arguments *)

Arities == {Arity("None", 0)} \cup {Arity(k, n) : k \in {"Exactly", "AtLeast"}, n \in 0..MaxArgs}

\* Arity::check of the arity a on l arguments
CheckArity ==
    /\ pc \notin {"exited", "panicked"}
    /\ \E a \in Arities, l \in 0..MaxArgs :
          /\ stmt' = <<[kind |-> "Arity", arity |-> a, l |-> l]>>
          /\ result' = <<ArityCheckResult(a, l)>>
    /\ log' = <<>>
    /\ UNCHANGED <<prev_results, rls, pc, prompt, symbols, inits, tables, nread>>

\* Repl::interpret on `b -> f a1 .. an`
ApplyWithArgs ==
    /\ pc \notin {"exited", "panicked"}
    /\ Len(prev_results) < MaxHistory
    /\ \E b \in ReplBases, f \in FnNames, n \in 0..MaxArgs, w0 \in Worlds :
          LET s == Stmt("Expr", [base |-> b, chain |-> <<[fn |-> f, nargs |-> n]>>], "")
          IN  /\ ReplInterpret(s, [w0 EXCEPT !.prev = prev_results])
              /\ stmt' = <<s>>
    /\ nread' = nread + 1
    /\ UNCHANGED prompt

NextArity == CheckArity \/ ApplyWithArgs

SpecArity == Init /\ [][NextArity]_vars

----------------------------------------------------------------------------
(* Functions applied to a value of the history: the values are those earlier
   statements can have left there *)

\* the locators `:foo.rs:1:1` and `:foo.rs:1` resolve to
Locators ==
    { [rk |-> "Position", file |-> 1, line |-> 0, column |-> 0],
      [rk |-> "Line", file |-> 1, line |-> 0, column |-> 0] }

\* what the analysis host may have reported: up to MaxSetLen identifiers
IdentLists == UNION {[1..n -> 1..2] : n \in 0..MaxSetLen}

QueryValue(ty, q) == MkValue(ty, "Query", 0, NoLoc, <<>>, <<q>>)

\* the value of `l -> idents`
IdentsOf(l) ==
    QueryValue(TQuery(TSet(TIdentifier)),
               QueryFunction("Idents", TSet(TIdentifier), QueryReady(LocatorValue(l))))

\* the value of `v -> pick` for a query v
PickOf(v) ==
    QueryValue(TQuery(Tail(unquery(v.ty))),
               QueryFunction("Pick", Tail(unquery(v.ty)), ValueIntoQuery(v)))

\* the value of `v -> def`
DefOf(v) == QueryValue(v.ty, QueryFunction("Definition", v.ty, ValueIntoQuery(v)))

MaterializedSets == {IdentifierSet(ids, TSet(TIdentifier)) : ids \in IdentLists}

Operands ==
    {VoidValue, IdentifierValue(1), IdentifierValue(2)}
    \cup {LocatorValue(l) : l \in Locators}
    \cup MaterializedSets
    \cup {IdentsOf(l) : l \in Locators}
    \cup {PickOf(IdentsOf(l)) : l \in Locators}
    \cup {DefOf(IdentsOf(l)) : l \in Locators}
    \cup {DefOf(IdentifierValue(1))}
    \cup {DefOf(IdentifierSet(<<1, 2>>, TSet(TIdentifier)))}

InitOperand ==
    /\ prev_results \in {<<<<v>>>> : v \in Operands}
    /\ symbols = NoSymbols
    /\ log = <<>>
    /\ result = <<>>
    /\ stmt = <<>>
    /\ Idle(1)

\* the variables that name the one entry of the history
OperandBases == {Base("Dollar", 0, "", NoLocation)}
                   \cup {Base("Numeric", n, "", NoLocation) : n \in {0, -1}}

\* Interpreter::interpret_expr on `$ -> pick`, or on a longer chain of picks
ApplyPick ==
    \E b \in OperandBases, n \in 1..MaxChain :
       LET e == [base |-> b, chain |-> [i \in 1..n |-> [fn |-> "pick", nargs |-> 0]]]
           out == Call("InterpretExpr", <<e, n, LookupState, ReplWorld>>)
       IN  /\ result' = <<out.r>>
           /\ log' = out.st.log
           /\ symbols' = out.st.symbols
           /\ stmt' = <<Stmt("Expr", e, "")>>
           /\ UNCHANGED <<prev_results, rls, pc, prompt, inits, tables, nread>>

NextPick == ApplyPick

SpecPick == InitOperand /\ [][NextPick]_vars

\* Interpreter::interpret_expr on `$ -> def`, or on a longer chain of defs
ApplyDef ==
    \E b \in OperandBases, n \in 1..MaxChain :
       LET e == [base |-> b, chain |-> [i \in 1..n |-> [fn |-> "def", nargs |-> 0]]]
           out == Call("InterpretExpr", <<e, n, LookupState, ReplWorld>>)
       IN  /\ result' = <<out.r>>
           /\ log' = out.st.log
           /\ symbols' = out.st.symbols
           /\ stmt' = <<Stmt("Expr", e, "")>>
           /\ UNCHANGED <<prev_results, rls, pc, prompt, inits, tables, nread>>

NextDef == ApplyDef

SpecDef == InitOperand /\ [][NextDef]_vars

----------------------------------------------------------------------------
(* parse/lexer.rs.  A &str is the sequence of its bytes.  A character of one
   byte is written as itself; a character of two bytes is its first byte
   followed by the continuation byte Cont.  Positions, lengths and span
   starts count bytes, as in the source. *)

Cont == "cont"

\* U+00E9, alphabetic, and U+00A0, whitespace: two bytes each in UTF-8
WideChars == {"eacute", "nbsp"}

Letters == {"a", "f", "s", "h", "o", "w", "e", "l", "c", "t", "x", "eacute"}
Digits == {"0", "1", "2", "3", "4", "5", "6", "7", "8", "9"}

is_alphabetic(c) == c \in Letters
is_alphanumeric(c) == c \in Letters \cup Digits
is_whitespace(c) == c \in {" ", "nbsp"}
len_utf8(c) == IF c \in WideChars THEN 2 ELSE 1

\* the bytes of one character
Utf8(c) == IF c \in WideChars THEN <<c, Cont>> ELSE <<c>>

\* str::is_char_boundary
is_char_boundary(input, p) ==
    \/ p = 0
    \/ p = Len(input)
    \/ p < Len(input) /\ input[p + 1] # Cont

\* &input[a..b]
Slice(input, a, b) == SubSeq(input, a + 1, b)

SymbolOf(c) ==
    CASE c = "^" -> "Caret"
      [] c = "$" -> "Dollar"
      [] c = "*" -> "Asterisk"
      [] c = "=" -> "Eq"
      [] c = "#" -> "Hash"
      [] c = ";" -> "SemiColon"
      [] OTHER -> ""

\* tokens.rs: Span and Token
Span(start, text) == [start |-> start, text |-> text]
Token(kind, sym, span) == [kind |-> kind, sym |-> sym, span |-> span]

\* a make_span that leaves the offset of the lexer out
make_span_unshifted(input, position, offset, byte_len) ==
    Span(position, Slice(input, position, position + byte_len))

\* Lexer::make_span
make_span(input, position, offset, byte_len) ==
    Span(offset + position, Slice(input, position, position + byte_len))

\* Lexer::make_err
make_err(msg, position, offset, d) ==
    [tag |-> "err", msg |-> msg, off |-> offset + position + d]

\* the loop of the `(` arm of lex_tok: p is the byte the iterator is at, depth
\* the height of delim_stack.  The result is the byte after the closing
\* delimiter, or 0 when the input ends first.
RECURSIVE ScanTree(_, _, _)
ScanTree(input, p, depth) ==
    IF p >= Len(input) THEN 0
    ELSE LET c == input[p + 1]
         IN  CASE c = "(" -> ScanTree(input, p + 1, depth + 1)
               [] c = ")" -> IF depth = 1 THEN p + 1 ELSE ScanTree(input, p + 1, depth - 1)
               [] OTHER -> ScanTree(input, p + len_utf8(c), depth)

\* the loop of the identifier arm of lex_tok: the byte after the identifier
RECURSIVE ScanIdent(_, _)
ScanIdent(input, p) ==
    IF p < Len(input) /\ is_alphanumeric(input[p + 1])
    THEN ScanIdent(input, p + len_utf8(input[p + 1]))
    ELSE p

\* Lexer::lex_tok: Err, Ok(None) for whitespace, or Ok(Some((token, len)))
lex_tok(input, position, offset) ==
    LET c == input[position + 1]
    IN  CASE SymbolOf(c) # "" ->
               [tag |-> "tok", tok |-> Token("Symbol", SymbolOf(c), Span(offset + position, <<c>>)),
                len |-> 1]
          [] c = "-" ->
               IF position + 1 >= Len(input)
               THEN make_err("Unexpected end of input, expected >", position, offset, 1)
               ELSE IF input[position + 2] = ">"
               THEN [tag |-> "tok",
                     tok |-> Token("Symbol", "ArrowRight", make_span(input, position, offset, 2)),
                     len |-> 2]
               ELSE make_err("Unexpected token", position, offset, 1)
          [] c = "(" ->
               LET end == ScanTree(input, position + 1, 1)
               IN  IF end = 0
                   THEN make_err("Unexpected end of input (unclosed delimiters)", position, offset,
                                 (Len(input) - position) - 1)
                   ELSE [tag |-> "tok",
                         tok |-> Token("RawTree", "", make_span(input, position, offset, end - position)),
                         len |-> end - position]
          [] is_alphabetic(c) ->
               LET end == ScanIdent(input, position + len_utf8(c))
               IN  [tag |-> "tok",
                    tok |-> Token("Ident", "", make_span(input, position, offset, end - position)),
                    len |-> end - position]
          [] is_whitespace(c) -> [tag |-> "ws"]
          [] OTHER -> make_err("Unexpected token", position, offset, 0)

\* what lex returns: a Tree token, an error, or a panic
LexOk(tokens, span) == [tag |-> "ok", tokens |-> tokens, span |-> span]
LexPanic == [tag |-> "panic"]

\* a lex_tree that takes `#` for an ordinary symbol
RECURSIVE lex_tree_hash_token(_, _, _, _)
lex_tree_hash_token(input, position, offset, tokens) ==
    IF ~is_char_boundary(input, position) THEN LexPanic
    ELSE IF position = Len(input) THEN LexOk(tokens, Span(offset, Slice(input, 0, position)))
    ELSE LET t == lex_tok(input, position, offset)
         IN  CASE t.tag = "err" -> t
               [] t.tag = "ws" -> lex_tree_hash_token(input, position + 1, offset, tokens)
               [] t.tok.kind = "Symbol" /\ t.tok.sym = "SemiColon" ->
                    LexOk(Append(tokens, t.tok), Span(offset, Slice(input, 0, position + t.len)))
               [] OTHER -> lex_tree_hash_token(input, position + t.len, offset, Append(tokens, t.tok))

\* Lexer::lex_tree, from `position` with the tokens pushed so far.  Slicing
\* the input at a byte that is not a character boundary panics.
RECURSIVE lex_tree(_, _, _, _)
lex_tree(input, position, offset, tokens) ==
    IF ~is_char_boundary(input, position) THEN LexPanic
    ELSE IF position = Len(input) THEN LexOk(tokens, Span(offset, Slice(input, 0, position)))
    ELSE LET t == lex_tok(input, position, offset)
         IN  CASE t.tag = "err" -> t
               [] t.tag = "ws" -> lex_tree(input, position + 1, offset, tokens)
               [] t.tok.kind = "Symbol" /\ t.tok.sym = "Hash" ->
                    LexOk(tokens, Span(offset, Slice(input, 0, position)))
               [] t.tok.kind = "Symbol" /\ t.tok.sym = "SemiColon" ->
                    LexOk(Append(tokens, t.tok), Span(offset, Slice(input, 0, position + t.len)))
               [] OTHER -> lex_tree(input, position + t.len, offset, Append(tokens, t.tok))

\* lexer::lex
lex(input, offset) == lex_tree(input, 0, offset, <<>>)

\* the characters inputs are written in
LexChars == {"$", "-", ">", "(", ")", "#", ";", "a", "eacute", "1", " ", "nbsp", "%"}

RECURSIVE Encode(_)
Encode(cs) == IF cs = <<>> THEN <<>> ELSE Utf8(Head(cs)) \o Encode(Tail(cs))

LexInputs == {Encode(cs) : cs \in UNION {[1..n -> LexChars] : n \in 0..MaxInput}}

InitLex ==
    /\ stmt \in {<<[kind |-> "Lex", input |-> i, offset |-> k]>> : i \in LexInputs, k \in 0..MaxOffset}
    /\ prev_results = <<>>
    /\ symbols = NoSymbols
    /\ log = <<>>
    /\ result = <<>>
    /\ Idle(0)

\* lexer::lex on the input drawn
Lex ==
    /\ result = <<>>
    /\ result' = <<lex(stmt[1].input, stmt[1].offset)>>
    /\ UNCHANGED <<stmt, prev_results, rls, pc, prompt, symbols, inits, tables, nread, log>>

NextLex == Lex

SpecLex == InitLex /\ [][NextLex]_vars

----------------------------------------------------------------------------
(* parse/parser.rs: LocationParser.  Texts are byte sequences, as in the
   lexer. *)

\* str::starts_with(':')
starts_with_colon(input) == input # <<>> /\ input[1] = ":"

\* str::split(':'): the segments between the colons, at least one
RECURSIVE split(_, _)
split(input, seg) ==
    IF input = <<>> THEN <<seg>>
    ELSE IF Head(input) = ":" THEN <<seg>> \o split(Tail(input), <<>>)
    ELSE split(Tail(input), Append(seg, Head(input)))

\* str::trim
RECURSIVE trim_start(_)
trim_start(t) ==
    IF t # <<>> /\ t[1] = " " THEN trim_start(Tail(t))
    ELSE IF Len(t) >= 2 /\ t[1] = "nbsp" THEN trim_start(Tail(Tail(t)))
    ELSE t

RECURSIVE trim_end(_)
trim_end(t) ==
    IF t # <<>> /\ t[Len(t)] = " " THEN trim_end(SubSeq(t, 1, Len(t) - 1))
    ELSE IF Len(t) >= 2 /\ t[Len(t) - 1] = "nbsp" THEN trim_end(SubSeq(t, 1, Len(t) - 2))
    ELSE t

trim(t) == trim_end(trim_start(t))

DigitValue(c) == CHOOSE d \in 0..9 : <<"0", "1", "2", "3", "4", "5", "6", "7", "8", "9">>[d + 1] = c

RECURSIVE Decimal(_)
Decimal(t) == IF t = <<>> THEN 0 ELSE 10 * Decimal(SubSeq(t, 1, Len(t) - 1)) + DigitValue(t[Len(t)])

\* str::parse::<usize>: decimal digits after an optional `+`; None on anything
\* else.  The texts of the model are too short to overflow.
parse_usize(t) ==
    LET digits == IF t # <<>> /\ t[1] = "+" THEN Tail(t) ELSE t
    IN  IF digits # <<>> /\ \A i \in 1..Len(digits) : digits[i] \in Digits
        THEN <<Decimal(digits)>>
        ELSE <<>>

ParseOk(v) == [tag |-> "ok", val |-> v]
ParseErr(msg) == [tag |-> "err", msg |-> msg]

\* LocationParser::map_parse on an Option<&str>
map_parse(o) ==
    IF o = <<>> THEN ParseOk(<<>>)
    ELSE IF parse_usize(o[1]) = <<>> THEN ParseErr("Invalid location, expected number")
    ELSE ParseOk(parse_usize(o[1]))

\* the n-th item of the iterator, trimmed
nth_trimmed(splits, n) == IF Len(splits) >= n THEN <<trim(splits[n])>> ELSE <<>>

\* LocationParser::location
location(input) ==
    IF ~starts_with_colon(input) THEN ParseErr("Invalid location, expected :")
    ELSE LET splits == split(Tail(input), <<>>)
             first == nth_trimmed(splits, 1)
             second == nth_trimmed(splits, 2)
             third == nth_trimmed(splits, 3)
         IN  IF Len(splits) >= 4 /\ splits[4] # <<>> THEN ParseErr("Invalid location, unexpected")
             ELSE IF first = <<>> THEN ParseOk(Location(<<>>, <<>>, <<>>))
             ELSE IF parse_usize(first[1]) # <<>>
             THEN IF third # <<>> THEN ParseErr("Invalid location, unexpected")
                  ELSE IF map_parse(second).tag = "err" THEN map_parse(second)
                  ELSE ParseOk(Location(<<>>, parse_usize(first[1]), map_parse(second).val))
             ELSE IF map_parse(second).tag = "err" THEN map_parse(second)
             ELSE IF map_parse(third).tag = "err" THEN map_parse(third)
             ELSE ParseOk(Location(first, map_parse(second).val, map_parse(third).val))

\* the segments location texts are written with
SegmentTexts == {<<>>, <<"f">>, <<"4">>, <<" ", "7">>, <<"+", "3">>, <<"x", "1">>}

RECURSIVE Join(_)
Join(segs) ==
    IF Len(segs) = 1 THEN segs[1] ELSE segs[1] \o <<":">> \o Join(Tail(segs))

LocationTexts ==
    {<<>>, <<"f">>}
    \cup {<<":">> \o Join(segs) : segs \in UNION {[1..n -> SegmentTexts] : n \in 1..MaxSegments}}

InitLocation ==
    /\ stmt \in {<<[kind |-> "Location", input |-> t]>> : t \in LocationTexts}
    /\ prev_results = <<>>
    /\ symbols = NoSymbols
    /\ log = <<>>
    /\ result = <<>>
    /\ Idle(0)

\* LocationParser::new(input, ctx).location()
ParseLocation ==
    /\ result = <<>>
    /\ result' = <<location(stmt[1].input)>>
    /\ UNCHANGED <<stmt, prev_results, rls, pc, prompt, symbols, inits, tables, nread, log>>

NextLocation == ParseLocation

SpecLocation == InitLocation /\ [][NextLocation]_vars

----------------------------------------------------------------------------
(* parse/parser.rs: Parser, and parse/mod.rs: parse_stmt.  A parsing method
   returns its Result together with the position the parser is left at:
   [tag, val, pos], val holding the node of an Ok(Some(_)) or Ok(node) and
   nothing for Ok(None), Ok(()) and the errors. *)

POk(val, pos) == [tag |-> "ok", val |-> val, pos |-> pos]
\* Error::Parsing, Error::Lexing, Error::EmptyInput, and a panic
PErr(tag, pos) == [tag |-> tag, val |-> <<>>, pos |-> pos]

SelectText == <<"s", "e", "l", "e", "c", "t">>
ShowText == <<"s", "h", "o", "w">>

\* Span::inner
inner(span) == trim(Slice(span.text, 1, Len(span.text) - 1))

\* Parser::assert_ident
assert_ident(tokens, pos, text) ==
    IF pos >= Len(tokens) THEN PErr("Parsing", pos)
    ELSE IF tokens[pos + 1].kind = "Ident" /\ tokens[pos + 1].span.text = text THEN POk(<<>>, pos + 1)
    ELSE PErr("Parsing", pos + 1)

\* the parsing methods call one another through ParserCall
RECURSIVE ParserCall(_, _)

\* Parser::one_or_more(.., |this| this.maybe_expr())
one_or_more(tokens, pos) ==
    LET r == ParserCall("zero_or_more", <<tokens, pos, <<>>>>)
    IN  IF r.tag = "ok" /\ r.val = <<>> THEN PErr("Parsing", r.pos) ELSE r

\* Parser::select
select(tokens, pos) ==
    LET a == assert_ident(tokens, pos, SelectText)
    IN  IF a.tag # "ok" THEN a
        ELSE LET many == a.pos < Len(tokens) /\ tokens[a.pos + 1].kind = "Symbol"
                            /\ tokens[a.pos + 1].sym = "Asterisk"
                 f == ParserCall("one_or_more", <<tokens, IF many THEN a.pos + 1 ELSE a.pos>>)
             IN  IF f.tag # "ok" THEN f
                 ELSE POk(<<[k |-> "Select", many |-> many, filters |-> f.val]>>, f.pos)

\* Parser::zero_or_more(|this| this.maybe_expr())
zero_or_more(tokens, pos, acc) ==
    LET m == ParserCall("maybe_expr", <<tokens, pos>>)
    IN  IF m.tag # "ok" THEN m
        ELSE IF m.val = <<>> THEN POk(acc, m.pos)
        ELSE ParserCall("zero_or_more", <<tokens, m.pos, Append(acc, m.val[1])>>)

\* Parser::maybe_expr
maybe_expr(tokens, pos) ==
    IF pos >= Len(tokens) THEN POk(<<>>, pos)
    ELSE LET tok == tokens[pos + 1]
         IN  CASE tok.kind = "Ident" ->
                    IF tok.span.text = SelectText THEN ParserCall("select", <<tokens, pos>>)
                    ELSE POk(<<>>, pos)
               [] tok.kind = "Symbol" ->
                    IF tok.sym = "Dollar" THEN POk(<<[k |-> "Dollar"]>>, pos + 1) ELSE POk(<<>>, pos)
               [] tok.kind = "RawTree" ->
                    IF starts_with_colon(inner(tok.span))
                    THEN LET l == ParserCall("location", <<inner(tok.span)>>)
                         IN  IF l.tag = "err" THEN PErr("Parsing", pos)
                             ELSE POk(<<[k |-> "Location", loc |-> l.val]>>, pos + 1)
                    ELSE LET tt == ParserCall("lex", <<inner(tok.span), tok.span.start + 1>>)
                         IN  IF tt.tag = "err" THEN PErr("Lexing", pos)
                             ELSE IF tt.tag = "panic" THEN PErr("panic", pos)
                             ELSE LET e == ParserCall("maybe_expr", <<tt.tokens, 0>>)
                                  IN  IF e.tag # "ok" THEN PErr(e.tag, pos + 1)
                                      ELSE IF e.val # <<>> THEN POk(e.val, pos + 1)
                                      ELSE POk(<<[k |-> "Void"]>>, pos + 1)

\* Parser::show: assert_ident, then parse_expr (exactly_one of maybe_expr)
show(tokens, pos) ==
    LET a == assert_ident(tokens, pos, ShowText)
    IN  IF a.tag # "ok" THEN a
        ELSE LET m == ParserCall("maybe_expr", <<tokens, a.pos>>)
             IN  IF m.tag # "ok" THEN m
                 ELSE IF m.val = <<>> THEN PErr("Parsing", m.pos)
                 ELSE POk(<<[k |-> "Show", e |-> m.val[1]]>>, m.pos)

\* a Parser::end that accepts whatever is left
end_lax(tokens, pos) == POk(<<>>, pos)

\* Parser::end
end(tokens, pos) == IF pos < Len(tokens) THEN PErr("Parsing", pos) ELSE POk(<<>>, pos)

\* Parser::maybe_semi
maybe_semi(tokens, pos) ==
    IF pos < Len(tokens)
    THEN IF tokens[pos + 1].kind = "Symbol" /\ tokens[pos + 1].sym = "SemiColon"
         THEN POk(<<>>, pos + 1)
         ELSE PErr("Parsing", pos)
    ELSE POk(<<>>, pos)

\* Parser::parse_stmt.  The Result of maybe_semi is dropped: only the
\* position it leaves is kept.
Parser_parse_stmt(tokens, pos) ==
    LET kind ==
          IF pos >= Len(tokens) THEN PErr("Parsing", pos)
          ELSE LET tok == tokens[pos + 1]
               IN  CASE tok.kind = "Ident" /\ tok.span.text = SelectText ->
                          LET r == ParserCall("select", <<tokens, pos>>)
                          IN  IF r.tag # "ok" THEN r ELSE POk(<<[k |-> "Expr", e |-> r.val[1]]>>, r.pos)
                     [] tok.kind = "Ident" /\ tok.span.text = ShowText ->
                          ParserCall("show", <<tokens, pos>>)
                     [] tok.kind = "Symbol" /\ tok.sym = "Dollar" ->
                          POk(<<[k |-> "Expr", e |-> [k |-> "Dollar"]]>>, pos + 1)
                     [] OTHER -> PErr("Parsing", pos)
    IN  IF kind.tag # "ok" THEN kind
        ELSE POk(kind.val, maybe_semi(tokens, kind.pos).pos)

\* parser::parse_stmt
parser_parse_stmt(tokens) ==
    LET r == ParserCall("Parser_parse_stmt", <<tokens, 0>>)
    IN  IF r.tag # "ok" THEN r
        ELSE IF end(tokens, r.pos).tag # "ok" THEN end(tokens, r.pos)
        ELSE r

\* parse::parse_stmt
parse_stmt(input) ==
    LET toks == ParserCall("lex", <<input, 0>>)
    IN  IF toks.tag = "err" THEN PErr("Lexing", 0)
        ELSE IF toks.tag = "panic" THEN PErr("panic", 0)
        ELSE IF toks.tokens = <<>> THEN PErr("EmptyInput", 0)
        ELSE ParserCall("parser_parse_stmt", <<toks.tokens>>)

ParserCall(op, a) ==
    CASE op = "zero_or_more" -> zero_or_more(a[1], a[2], a[3])
      [] op = "one_or_more" -> one_or_more(a[1], a[2])
      [] op = "maybe_expr" -> maybe_expr(a[1], a[2])
      [] op = "select" -> select(a[1], a[2])
      [] op = "show" -> show(a[1], a[2])
      [] op = "location" -> location(a[1])
      [] op = "lex" -> lex(a[1], a[2])
      [] op = "Parser_parse_stmt" -> Parser_parse_stmt(a[1], a[2])
      [] op = "parser_parse_stmt" -> parser_parse_stmt(a[1])
      [] op = "parse_stmt" -> parse_stmt(a[1])

\* the pieces statement texts are written with
Lexemes ==
    { ShowText, SelectText, <<"x">>, <<"$">>, <<"*">>, <<";">>, <<" ">>, <<"#">>,
      <<"(", ")">>, <<"(", "$", ")">>, <<"(", ":", "f", ")">>, <<"(", "$", " ", "$", ")">> }

RECURSIVE Concat(_)
Concat(ls) == IF ls = <<>> THEN <<>> ELSE Head(ls) \o Concat(Tail(ls))

StatementTexts == {Concat(ls) : ls \in UNION {[1..n -> Lexemes] : n \in 0..MaxLexemes}}

InitParse ==
    /\ stmt \in {<<[kind |-> "Parse", input |-> t]>> : t \in StatementTexts}
    /\ prev_results = <<>>
    /\ symbols = NoSymbols
    /\ log = <<>>
    /\ result = <<>>
    /\ Idle(0)

\* parse::parse_stmt on the text drawn
ParseStmt ==
    /\ result = <<>>
    /\ result' = <<ParserCall("parse_stmt", <<stmt[1].input>>)>>
    /\ UNCHANGED <<stmt, prev_results, rls, pc, prompt, symbols, inits, tables, nread, log>>

NextParse == ParseStmt

SpecParse == InitParse /\ [][NextParse]_vars

----------------------------------------------------------------------------
(* file_system::resolve_location on its own, over any file system: `found` is
   what fs.find returns for the name of the location *)

OptionalNumbers == {<<>>} \cup {<<n>> : n \in 0..MaxLine}

ParsedLocations ==
    {Location(f, l, c) : f \in {<<>>, <<"foo.rs">>}, l \in OptionalNumbers, c \in OptionalNumbers}

\* Ok(paths), the paths being keys, or the error of the file system
Found ==
    {Err(ErrKind("FileSystem"))}
    \cup {Ok(ps) : ps \in UNION {[1..n -> 1..MaxPaths] : n \in 0..MaxPaths}}

InitResolve ==
    /\ stmt \in {<<[kind |-> "Resolve", loc |-> l, found |-> f]>> : l \in ParsedLocations, f \in Found}
    /\ prev_results = <<>>
    /\ symbols = NoSymbols
    /\ log = <<>>
    /\ result = <<>>
    /\ Idle(0)

\* resolve_location(loc, &fs)
Resolve ==
    /\ result = <<>>
    /\ result' = <<resolve_location(stmt[1].loc, stmt[1].found)>>
    /\ UNCHANGED <<stmt, prev_results, rls, pc, prompt, symbols, inits, tables, nread, log>>

NextResolve == Resolve

SpecResolve == InitResolve /\ [][NextResolve]_vars

----------------------------------------------------------------------------
(* front/data.rs: the text Show for ValueKind writes, a sequence of
   characters, and ValueKind::is_void *)

\* Value::number
NumberValue(n) == MkValue(TNumber, "Number", n, NoLoc, <<>>, <<>>)

\* write!(w, "{}", n) of a usize
RECURSIVE usize_display(_)
usize_display(n) ==
    IF n < 10 THEN <<Digit(n)>> ELSE usize_display(n \div 10) \o <<Digit(n % 10)>>

\* a display of sets that abbreviates from six elements on
SetAbbreviatedLate(n) == n > 5

\* the test `v.len() < 5` of the Set arm, negated
SetAbbreviated(n) == ~(n < 5)

RECURSIVE ValueKindShow(_)

\* the loop of the Set arm: the elements from the i-th on
RECURSIVE ShowElements(_, _, _)
ShowElements(elems, i, first) ==
    IF i > Len(elems) THEN <<>>
    ELSE (IF first THEN <<>> ELSE <<",", " ">>)
            \o ValueKindShow(elems[i]) \o ShowElements(elems, i + 1, FALSE)

\* Show for ValueKind.  Position, Range and Definition write source text read
\* through the environment: that text is one piece here.
ValueKindShow(v) ==
    CASE v.kind = "Void" -> <<"(", ")">>
      [] v.kind = "Number" -> usize_display(v.n)
      [] v.kind = "Set" ->
            IF SetAbbreviated(Len(v.elems))
            THEN <<"[", ".", ".", ".", "]", "*">> \o usize_display(Len(v.elems))
            ELSE <<"[">> \o ShowElements(v.elems, 1, TRUE) \o <<"]">>
      [] v.kind = "Identifier" -> <<"backtick", "name", Digit(v.n), "backtick">>
      [] v.kind = "Query" -> <<"<", "Q", "u", "e", "r", "y", ">">>
      [] OTHER -> <<"source">>

\* a ValueKind::is_void that knows Void only
is_void_strict(v) == v.kind = "Void"

\* ValueKind::is_void
is_void(v) ==
    CASE v.kind = "Void" -> TRUE
      [] v.kind = "Set" /\ Len(v.elems) = 0 -> TRUE
      [] OTHER -> FALSE

SetOf(ty, elems) == MkValue(TSet(ty), "Set", 0, NoLoc, elems, <<>>)

ShownNumbers == {NumberValue(0), NumberValue(7), NumberValue(42)}
ShownSets == {SetOf(TNumber, <<>>), SetOf(TNumber, <<NumberValue(7)>>),
              SetOf(TNumber, <<NumberValue(0), NumberValue(42)>>)}

ShownValues ==
    {VoidValue, IdentifierValue(1)} \cup ShownNumbers
    \cup {IdentsOf(l) : l \in Locators}
    \cup {SetOf(TNumber, es) : es \in UNION {[1..n -> ShownNumbers] : n \in 0..MaxShown}}
    \cup {SetOf(TSet(TNumber), es) : es \in UNION {[1..n -> ShownSets] : n \in 0..MaxShown}}
    \cup {SetOf(TIdentifier, es) : es \in UNION {[1..n -> {IdentifierValue(1)}] : n \in 0..MaxShown}}

InitShow ==
    /\ stmt \in {<<[kind |-> "Value", v |-> v]>> : v \in ShownValues}
    /\ prev_results = <<>>
    /\ symbols = NoSymbols
    /\ log = <<>>
    /\ result = <<>>
    /\ Idle(0)

\* Show::show_str on the value
ShowValue ==
    /\ result = <<>>
    /\ result' = <<[op |-> "show", text |-> ValueKindShow(stmt[1].v), void |-> FALSE]>>
    /\ UNCHANGED <<stmt, prev_results, rls, pc, prompt, symbols, inits, tables, nread, log>>

\* ValueKind::is_void on the value
IsVoid ==
    /\ result = <<>>
    /\ result' = <<[op |-> "is_void", text |-> <<>>, void |-> is_void(stmt[1].v)]>>
    /\ UNCHANGED <<stmt, prev_results, rls, pc, prompt, symbols, inits, tables, nread, log>>

NextShow == ShowValue \/ IsVoid

SpecShow == InitShow /\ [][NextShow]_vars

----------------------------------------------------------------------------
(* front/query.rs: Query::eval on its own, on the queries the functions
   build: idents on a locator, then pick and def as their type rules allow;
   def on an identifier or a set of the history, then pick *)

RangeFile == [rk |-> "File", file |-> 1, line |-> 0, column |-> 0]

IdentsQueries == {IdentsOf(l) : l \in Locators \cup {RangeFile}}

DefQueries ==
    {DefOf(v) : v \in {IdentifierValue(1)}
                         \cup {IdentifierSet(ids, TSet(TIdentifier)) : ids \in {<<>>, <<1>>, <<1, 2>>}}}

ForcedQueries ==
    IdentsQueries
    \cup {PickOf(v) : v \in IdentsQueries}
    \cup {DefOf(v) : v \in IdentsQueries}
    \cup {DefOf(PickOf(v)) : v \in IdentsQueries}
    \cup {PickOf(DefOf(v)) : v \in IdentsQueries}
    \cup DefQueries
    \cup {PickOf(v) : v \in {d \in DefQueries : unquery(d.ty)[1] = "Set"}}

\* the answers of the analysis host
ForceWorlds ==
    {[prev |-> <<>>, env |-> "repl", envval |-> VoidValue, idents |-> n, init |-> "ok", fs |-> "ok"] :
        n \in -1..MaxIdents}

InitForce ==
    /\ stmt \in {<<[kind |-> "Force", v |-> v, w |-> w]>> : v \in ForcedQueries, w \in ForceWorlds}
    /\ prev_results = <<>>
    /\ symbols = NoSymbols
    /\ log = <<>>
    /\ result = <<>>
    /\ Idle(1)

\* Query::eval(back) on the query of the value
ForceQuery ==
    /\ result = <<>>
    /\ LET out == Force(stmt[1].v.q[1], LookupState, stmt[1].w, "select")
       IN  /\ result' = <<out.r>>
           /\ log' = out.st.log
    /\ UNCHANGED <<stmt, prev_results, rls, pc, prompt, symbols, inits, tables, nread>>

NextForce == ForceQuery

SpecForce == InitForce /\ [][NextForce]_vars

----------------------------------------------------------------------------
(* parse/tokens.rs: re-lexing the RawTree tokens the lexer makes of
   parenthesised groups *)

\* Token::expect_raw_tree of a RawTree token
expect_raw_tree(tok) == lex(inner(tok.span), tok.span.start + 1)

\* the characters the interiors of the groups are written in
GroupChars == {"$", "a", " ", "nbsp", "%"}

GroupInteriors == {Encode(cs) : cs \in UNION {[1..n -> GroupChars] : n \in 0..MaxGroup}}

Spaces(n) == [i \in 1..n |-> " "]

\* a group after n spaces
GroupInput(n, interior) == Spaces(n) \o <<"(">> \o interior \o <<")">>

InitRelex ==
    /\ stmt \in {<<[kind |-> "Relex", input |-> GroupInput(n, i), tok |-> lex(GroupInput(n, i), 0).tokens[1]]>> :
                    n \in 0..MaxOffset, i \in GroupInteriors}
    /\ prev_results = <<>>
    /\ symbols = NoSymbols
    /\ log = <<>>
    /\ result = <<>>
    /\ Idle(0)

\* Token::expect_raw_tree on the group drawn
Relex ==
    /\ result = <<>>
    /\ result' = <<expect_raw_tree(stmt[1].tok)>>
    /\ UNCHANGED <<stmt, prev_results, rls, pc, prompt, symbols, inits, tables, nread, log>>

NextRelex == Relex

SpecRelex == InitRelex /\ [][NextRelex]_vars

----------------------------------------------------------------------------
(* Properties *)

LogIdx == 1..Len(log)

\* the events of the trace that touch the backend
BackendOps == {"call", "backend", "Rls::init"}

\* the applications of the statement being interpreted
StmtChain == IF stmt = <<>> \/ stmt[1].kind = "Meta" THEN <<>> ELSE stmt[1].e.chain

(* C1: two-pass discipline.  The eval rule of an application runs only
   directly after the type rule of that same application has returned Ok, and
   only on an application that passes the arity check; once a type rule or an
   arity check has returned an error, no eval rule runs and no backend method
   is called in the rest of the statement. *)
C1_TwoPass ==
    /\ \A j \in LogIdx :
          log[j].op = "eval" =>
             /\ j > 1
             /\ log[j - 1].op = "ty"
             /\ log[j - 1].fn = log[j].fn
             /\ log[j - 1].n = log[j].n
             /\ log[j - 1].res = "ok"
             /\ StmtChain[log[j].n].fn = log[j].fn
             /\ StmtChain[log[j].n].nargs = 0
    /\ \A i \in LogIdx :
          log[i].op \in {"ty", "arity"} /\ log[i].res = "err" =>
             \A j \in LogIdx : j > i => log[j].op \notin {"eval"} \cup BackendOps

\* a statement refused by the type rule of select, on an operand whose own
\* application fails the arity check: nothing was evaluated
C1_Witness ==
    /\ result # <<>> /\ result[1].tag = "err"
    /\ \E i \in LogIdx : log[i].op = "ty" /\ log[i].res = "err" /\ log[i].fn = "select"
    /\ \E i \in LogIdx : log[i].op = "arity" /\ log[i].res = "err"
    /\ \A j \in LogIdx : log[j].op \notin {"eval"} \cup BackendOps

(* C2: backend calls happen only while show or select forces a Function node
   of a query: every backend call belongs to a node being forced in an eval of
   show or select; a statement that applies neither makes no backend call,
   whatever queries it builds; Query::eval on Ready(v) returns v, and a query
   that is only a Ready leaf is forced without a backend call. *)
C2_BackendOnlyWhenForced ==
    /\ \A j \in LogIdx :
          log[j].op = "call" =>
             /\ log[j].ctx \in {"show", "select"}
             /\ \E i \in 1..(j - 1) :
                   log[i].op = "force" /\ log[i].n = log[j].n /\ log[i].ctx = log[j].ctx
             /\ \E i \in 1..(j - 1) : log[i].op = "eval" /\ log[i].fn = log[j].ctx
    /\ (\A i \in 1..Len(StmtChain) : StmtChain[i].fn \notin {"show", "select"}) =>
          \A j \in LogIdx : log[j].op \notin BackendOps
    /\ \A j \in LogIdx :
          log[j].op = "ready" =>
             /\ log[j].res = "ok"
             /\ log[j].val = <<log[j].val[1], log[j].val[1]>>
    /\ (\A j \in LogIdx : log[j].op # "force") =>
          \A j \in LogIdx : log[j].op # "call"

\* `location -> idents -> show`: idents has built a query without a backend
\* call, then show has forced it, down to its Ready leaf
C2_Witness ==
    /\ Len(StmtChain) = 2 /\ StmtChain[1].fn = "idents" /\ StmtChain[2].fn = "show"
    /\ \E i, j, c \in LogIdx :
          /\ i < j /\ j < c
          /\ log[i].op = "eval" /\ log[i].fn = "idents"
          /\ log[j].op = "ready"
          /\ log[c].op = "call" /\ log[c].ctx = "show"
          /\ \A m \in i..j : log[m].op # "call"

(* C3: every error of a statement is caught at the statement boundary: the
   statement ends with the error printed, one None appended to the history and
   the REPL back at its prompt, and the process ends on an explicit exit
   alone. *)
C3_ErrorsCaught ==
    /\ pc # "panicked"
    /\ (result # <<>> /\ result[1].tag \notin {"ok", "exit"}) =>
          /\ pc = "prompt"
          /\ Len(prev_results) = prompt + 1
          /\ prev_results[Len(prev_results)] = <<>>
          /\ \E j \in LogIdx : log[j].op = "print"

(* C4: when the value of a statement has been computed and displaying it
   fails, the REPL goes on with that value, not None, appended to the
   history. *)
C4_DisplayFailureKeepsValue ==
    \A j \in LogIdx :
       log[j].op = "show" /\ log[j].ctx = "stmt" /\ log[j].res # "ok" =>
          /\ pc = "prompt"
          /\ Len(prev_results) = prompt + 1
          /\ prev_results[Len(prev_results)] = log[j].val

(* C5: the history has one entry for every non-empty statement read so far,
   and the prompt shows that number. *)
C5_HistoryCountsStatements ==
    pc # "exited" =>
       /\ Len(prev_results) = nread
       /\ pc = "read" => prompt = Len(prev_results)

(* C9: one symbol table is created in a REPL session. *)
C9_OneSymbolTable == tables <= 1

(* C10: the backend is built lazily, once, and reused: there is no backend
   before the first call of backend(), Rls::init runs at most once in a
   session, and every call of backend() returns the instance that one
   initialisation built. *)
C10_BackendOnce ==
    /\ inits <= 1
    /\ inits = 0 => rls = <<>>
    /\ rls # <<>> => rls = <<1>> /\ inits = 1
    /\ \A j \in LogIdx : log[j].op = "backend" => log[j].n = 1 /\ rls = <<1>>
    /\ \A j \in LogIdx : log[j].op = "Rls::init" /\ log[j].res = "ok" =>
          j < Len(log) /\ log[j + 1].op = "backend" /\ \A i \in 1..(j - 1) : log[i].op # "backend"

\* a later statement calls backend() and gets the instance an earlier one built
C10_Witness ==
    /\ rls = <<1>>
    /\ Len(prev_results) = 2
    /\ \E j \in LogIdx : log[j].op = "backend"
    /\ \A j \in LogIdx : log[j].op # "Rls::init"

----------------------------------------------------------------------------
(* Properties of the lookups *)

AllValues == \A i \in 1..Len(prev_results) : prev_results[i] # <<>>

\* the value of history entry n, counted from 0
Entry(n) == <<Ok(prev_results[n + 1][1])>>

C6_Resolves ==
    (stmt # <<>> /\ AllValues) =>
       LET len == Len(prev_results)
           n == stmt[1].n
       IN  /\ (stmt[1].k = "Dollar" /\ len > 0) => result = Entry(len - 1)
           /\ (stmt[1].k = "Numeric" /\ n = -1 /\ len > 0) => result = Entry(len - 1)
           /\ (stmt[1].k = "Numeric" /\ 0 <= n /\ n < len) => result = Entry(n)
           /\ (stmt[1].k = "Numeric" /\ (0 - len) <= n /\ n < 0) => result = Entry(len + n)

(* C6: on a history of len entries that all hold values, `$` and Numeric(-1)
   resolve to entry len-1, Numeric(n) to entry n when 0 <= n < len and to
   entry len+n when -len <= n < 0; a lookup leaves the history as it was. *)
C6_NumericLookup == [][prev_results' = prev_results /\ C6_Resolves']_vars

\* Numeric(-3) on three values has resolved to the first of them
C6_Witness ==
    /\ Len(prev_results) = 3 /\ AllValues
    /\ prev_results[1] # prev_results[2] /\ prev_results[1] # prev_results[3]
    /\ stmt # <<>> /\ stmt[1].k = "Numeric" /\ stmt[1].n = -3
    /\ result = Entry(0)

\* the index, counted from 0, a lookup of n resolves to
ResolvedIndex(n) == IF n < 0 THEN Len(prev_results) + n ELSE n

\* the index the lookup in stmt asks for
AskedIndex == IF stmt[1].k = "Dollar" THEN -1 ELSE stmt[1].n

C29_Stored ==
    (stmt # <<>> /\ stmt[1].k \in {"Dollar", "Numeric"}) =>
       LET i == ResolvedIndex(AskedIndex)
       IN  (0 <= i /\ i < Len(prev_results)) =>
              IF prev_results[i + 1] = <<>>
              THEN result = <<Err(VarNotFound(to_string(i)))>>
              ELSE result = <<Ok(prev_results[i + 1][1])>>

(* C29: a numeric lookup whose index resolves to an entry of the history
   returns the value stored in that entry and no other; when the entry is
   the None a failed statement left, the lookup fails with VarNotFound naming
   the resolved index, without falling back to an older entry; the history
   is left as it was. *)
C29_NoFallback == [][prev_results' = prev_results /\ C29_Stored']_vars

\* `$` right after a failed statement that followed a successful one
C29_Witness ==
    /\ Len(prev_results) = 2
    /\ prev_results[1] # <<>> /\ prev_results[2] = <<>>
    /\ stmt # <<>> /\ stmt[1].k = "Dollar"
    /\ result = <<Err(VarNotFound("1"))>>

(* C7: a numeric lookup whose index n is out of range for the len entries of
   the history fails with NumericVarNotFound carrying n and len-1. *)
C7_OutOfRangeReportsIndex ==
    (stmt # <<>> /\ stmt[1].k = "Numeric"
        /\ (stmt[1].n >= Len(prev_results) \/ stmt[1].n < 0 - Len(prev_results))) =>
       /\ result[1].tag = "err"
       /\ result[1].err.kind = "NumericVarNotFound"
       /\ result[1].err.idx = [wrap |-> 0, val |-> stmt[1].n]
       /\ result[1].err.bound = Len(prev_results) - 1

The(name) == <<Base("Named", 0, name, NoLocation)>>

(* C8: a Named lookup of a name bound in the symbol table returns the binding
   and does not call the environment; of an unbound name it calls the
   environment's lookup_var once, and then either returns the value found,
   now bound to the name in the symbol table, or returns the error with the
   symbol table as it was. *)
C8_NamedLookup ==
    [][\A name \in Names :
          stmt' = The(name) =>
             IF symbols[name] # <<>>
             THEN /\ result' = <<Ok(symbols[name][1])>>
                  /\ log' = <<>>
                  /\ symbols' = symbols
             ELSE /\ Len(log') = 1
                  /\ log'[1].op = "lookup_var" /\ log'[1].fn = name
                  /\ IF log'[1].res = "ok"
                     THEN /\ result'[1].tag = "ok"
                          /\ result'[1].val = log'[1].val
                          /\ symbols' = [symbols EXCEPT ![name] = result'[1].val]
                     ELSE /\ result'[1].tag = "err"
                          /\ symbols' = symbols]_vars

\* a lookup answered by the symbol table, which holds a second binding too
C8_Witness ==
    /\ stmt = The("x")
    /\ log = <<>>
    /\ symbols["x"] # <<>> /\ result = <<Ok(symbols["x"][1])>>
    /\ symbols["y"] # <<>> /\ symbols["y"] # symbols["x"]


----------------------------------------------------------------------------
(* Properties of the functions *)

(* C11: Arity::check returns Ok exactly on (None, 0 arguments), (Exactly(n),
   n arguments) and (AtLeast(n), n or more arguments) and a TypeError on
   everything else; a statement that gives one of show, select, pick, idents
   and def an argument ends in that TypeError, caught by the REPL, with no
   eval rule run and no panic. *)
C11_ArityEnforced ==
    stmt # <<>> =>
       /\ stmt[1].kind = "Arity" =>
             LET a == stmt[1].arity
                 l == stmt[1].l
                 accepts == \/ a.k = "None" /\ l = 0
                            \/ a.k = "Exactly" /\ l = a.n
                            \/ a.k = "AtLeast" /\ l >= a.n
             IN  result = <<IF accepts THEN Ok(VoidValue) ELSE Err(ErrKind("TypeError"))>>
       /\ (stmt[1].kind = "Expr" /\ stmt[1].e.chain[1].nargs >= 1) =>
             /\ result = <<Err(ErrKind("TypeError"))>>
             /\ pc = "prompt"
             /\ prev_results[Len(prev_results)] = <<>>
             /\ \A j \in LogIdx : log[j].op \notin {"eval", "ty"} \cup BackendOps

\* `location -> idents arg` has ended in the arity error
C11_Witness ==
    /\ stmt # <<>> /\ stmt[1].kind = "Expr"
    /\ stmt[1].e.base.k = "Location"
    /\ stmt[1].e.chain[1] = [fn |-> "idents", nargs |-> 1]
    /\ result = <<Err(ErrKind("TypeError"))>>
    /\ \E j \in LogIdx : log[j].op = "arity" /\ log[j].res = "err"


\* the value a function of the statement is applied to
Operand == prev_results[1][1]

(* C12: pick on a query of type Query(Set(T)) returns a pending query of type
   Query(T), a Pick node on top of the query it was given, and forces
   nothing; pick on a materialized non-empty set returns its first element;
   pick on a materialized empty set returns the EmptySet error; pick on any
   other value is a type error; pick never panics. *)
C12_Pick ==
    (stmt # <<>> /\ stmt[1].kind = "Expr") =>
       /\ result[1].tag # "panic"
       /\ \A j \in LogIdx : log[j].op \notin {"force", "ready", "index"} \cup BackendOps
       /\ Len(stmt[1].e.chain) = 1 =>
             LET v == Operand
             IN  /\ (v.kind = "Query" /\ Len(v.ty) >= 2 /\ v.ty[1] = "Query" /\ v.ty[2] = "Set") =>
                       /\ result[1].tag = "ok"
                       /\ result[1].val[1].kind = "Query"
                       /\ result[1].val[1].ty = TQuery(Tail(Tail(v.ty)))
                       /\ result[1].val[1].q =
                             <<[ready |-> v.q[1].ready,
                                fns |-> Append(v.q[1].fns,
                                               [def |-> "Pick", ty |-> Tail(Tail(v.ty))])]>>
                 /\ (v.kind = "Set" /\ Len(v.elems) > 0) => result = <<Ok(v.elems[1])>>
                 /\ (v.kind = "Set" /\ Len(v.elems) = 0) => result = <<Err(ErrKind("EmptySet"))>>
                 /\ (v.kind \notin {"Set", "Query"} \/ (v.kind = "Query" /\ unquery(v.ty)[1] # "Set")) =>
                       result = <<Err(ErrKind("TypeError"))>>

\* pick has refused the empty materialized set
C12_Witness ==
    /\ stmt # <<>> /\ stmt[1].kind = "Expr" /\ Len(stmt[1].e.chain) = 1
    /\ Operand.kind = "Set" /\ Operand.elems = <<>>
    /\ result = <<Err(ErrKind("EmptySet"))>>


\* the type the type rule of def gives for an operand of type t
DefType(t) ==
    CASE unquery(t) = TIdentifier -> <<TQuery(TDefinition)>>
      [] unquery(t) = TSet(TIdentifier) -> <<TQuery(TSet(TDefinition))>>
      [] OTHER -> <<>>

(* C13: def applied to an operand of type Identifier produces a value of type
   Query(Definition), applied to Set(Identifier) a value of type
   Query(Set(Definition)), and is refused with a type error on every other
   type; the type of the value eval returns is the type of the type rule. *)
C13_DefTypes ==
    (stmt # <<>> /\ stmt[1].kind = "Expr" /\ Len(stmt[1].e.chain) = 1
        /\ stmt[1].e.chain[1].fn = "def") =>
       IF DefType(Operand.ty) = <<>>
       THEN result = <<Err(ErrKind("TypeError"))>>
       ELSE /\ result[1].tag = "ok"
            /\ result[1].val[1].kind = "Query"
            /\ result[1].val[1].ty = DefType(Operand.ty)[1]

\* the part of C13 the code keeps: def is refused on every operand that is
\* neither an identifier nor a set of identifiers, and accepted on the others
C13_DefAccepts ==
    (stmt # <<>> /\ stmt[1].kind = "Expr" /\ Len(stmt[1].e.chain) = 1
        /\ stmt[1].e.chain[1].fn = "def") =>
       IF DefType(Operand.ty) = <<>>
       THEN result = <<Err(ErrKind("TypeError"))>>
       ELSE result[1].tag = "ok" /\ result[1].val[1].kind = "Query"


----------------------------------------------------------------------------
(* Properties of the lexer *)

Lexed == stmt # <<>> /\ stmt[1].kind = "Lex" /\ result # <<>>
LexInput == stmt[1].input
LexOffset == stmt[1].offset

\* the byte after token t
TokEnd(t) == t.span.start + Len(t.span.text)

\* the bytes of the input from absolute position a up to absolute position b
Between(a, b) == Slice(LexInput, a - LexOffset, b - LexOffset)

\* the tree with every span start moved by k
Shifted(r, k) ==
    IF r.tag = "ok"
    THEN LexOk([j \in 1..Len(r.tokens) |->
                   Token(r.tokens[j].kind, r.tokens[j].sym,
                         Span(r.tokens[j].span.start + k, r.tokens[j].span.text))],
               Span(r.span.start + k, r.span.text))
    ELSE IF r.tag = "err" THEN [r EXCEPT !.off = @ + k]
    ELSE r

(* C15: when lex(s, k) succeeds, every token starts at k plus its byte index
   in s and its text is the bytes of s at that index; the tokens are in
   increasing order and do not overlap, the bytes before the first token and
   between two consecutive tokens are whitespace only, and lex(s, k) is
   lex(s, 0) with every span start moved by k. *)
C15_Spans ==
    (Lexed /\ result[1].tag = "ok") =>
       LET toks == result[1].tokens
       IN  /\ \A j \in 1..Len(toks) :
                /\ toks[j].span.start >= LexOffset
                /\ TokEnd(toks[j]) <= LexOffset + Len(LexInput)
                /\ Len(toks[j].span.text) > 0
                /\ toks[j].span.text = Between(toks[j].span.start, TokEnd(toks[j]))
                /\ LET from == IF j = 1 THEN LexOffset ELSE TokEnd(toks[j - 1])
                       gap == Between(from, toks[j].span.start)
                   IN  /\ from <= toks[j].span.start
                       /\ \A i \in 1..Len(gap) : is_whitespace(gap[i])
           /\ result[1].span.start = LexOffset
           /\ result[1] = Shifted(lex(LexInput, 0), LexOffset)

\* a tree of two tokens apart, the first one holding a character of two
\* bytes, lexed at an offset
C15_Witness ==
    /\ Lexed /\ result[1].tag = "ok" /\ LexOffset > 0
    /\ Len(result[1].tokens) = 2
    /\ result[1].tokens[1].span.text = <<"eacute", Cont>>
    /\ result[1].tokens[2].span.start = LexOffset + 3


\* the byte position of the first `#` or `;` of the input, from byte p on,
\* that is outside every parenthesised group; -1 when there is none
RECURSIVE FirstStop(_, _, _)
FirstStop(input, p, depth) ==
    IF p >= Len(input) THEN -1
    ELSE LET c == input[p + 1]
         IN  CASE c = "(" -> FirstStop(input, p + 1, depth + 1)
               [] c = ")" -> FirstStop(input, p + 1, IF depth > 0 THEN depth - 1 ELSE 0)
               [] c \in {"#", ";"} /\ depth = 0 -> p
               [] OTHER -> FirstStop(input, p + 1, depth)

(* C16: when the input before the first `#` at depth 0 lexes, the whole input
   lexes to the same tree: the `#` is no token and nothing after it is lexed
   or reported.  When the input before the first `;` at depth 0 lexes, the
   whole input lexes to those tokens followed by the `;` as the last token,
   and the tree ends there.  An input with no `#` or `;` at depth 0 that
   lexes is lexed to its end, whatever `#` and `;` its groups hold. *)
C16_Terminators ==
    Lexed =>
       LET i == FirstStop(LexInput, 0, 0)
           before == lex(Slice(LexInput, 0, i), LexOffset)
       IN  /\ (i >= 0 /\ before.tag = "ok" /\ LexInput[i + 1] = "#") => result[1] = before
           /\ (i >= 0 /\ before.tag = "ok" /\ LexInput[i + 1] = ";") =>
                 result[1] = LexOk(Append(before.tokens,
                                          Token("Symbol", "SemiColon", Span(LexOffset + i, <<";">>))),
                                   Span(LexOffset, Slice(LexInput, 0, i + 1)))
           /\ (i < 0 /\ result[1].tag = "ok") => result[1].span.text = LexInput
           /\ result[1].tag = "ok" =>
                 \A j \in 1..Len(result[1].tokens) :
                    result[1].tokens[j].sym = "SemiColon" => j = Len(result[1].tokens)

\* a `#` after one token, with a character after it that is no token
C16_Witness ==
    /\ Lexed /\ Len(LexInput) = 3
    /\ LexInput[2] = "#" /\ LexInput[3] = "%"
    /\ result[1].tag = "ok" /\ Len(result[1].tokens) = 1
    /\ result[1].span.text = <<LexInput[1]>>


\* the byte position of the first invalid input of the text from byte p on, at
\* depth 0 and before any `#` or `;`: a character that starts no token and is
\* no whitespace, a `-` without `>`, a `(` without its `)`; -1 when there is
\* none
RECURSIVE FirstInvalid(_, _)
FirstInvalid(input, p) ==
    IF p >= Len(input) THEN -1
    ELSE LET c == input[p + 1]
         IN  CASE c \in {"#", ";"} -> -1
               [] SymbolOf(c) # "" -> FirstInvalid(input, p + 1)
               [] c = "-" -> IF p + 1 < Len(input) /\ input[p + 2] = ">"
                             THEN FirstInvalid(input, p + 2) ELSE p
               [] c = "(" -> IF ScanTree(input, p + 1, 1) = 0 THEN p
                             ELSE FirstInvalid(input, ScanTree(input, p + 1, 1))
               [] is_alphabetic(c) -> FirstInvalid(input, ScanIdent(input, p + len_utf8(c)))
               [] is_whitespace(c) -> FirstInvalid(input, p + len_utf8(c))
               [] OTHER -> p

(* C17: lexing aborts at the first invalid input at depth 0 before any `#` or
   `;`: the result is an error, and its offset is the offset of the lexer
   plus the byte index of that input. *)
C17_AbortsAtFirstInvalid ==
    (Lexed /\ FirstInvalid(LexInput, 0) >= 0) =>
       /\ result[1].tag = "err"
       /\ result[1].off = LexOffset + FirstInvalid(LexInput, 0)

\* what the lexer does report when it returns an error: the position of a
\* character that starts nothing, the byte after a `-`, the last byte of the
\* input for an unclosed `(`
C17_ReportedOffsets ==
    (Lexed /\ result[1].tag = "err") =>
       LET i == FirstInvalid(LexInput, 0)
       IN  /\ i >= 0
           /\ result[1].off = LexOffset +
                 (CASE LexInput[i + 1] = "-" -> i + 1
                    [] LexInput[i + 1] = "(" -> Len(LexInput) - 1
                    [] OTHER -> i)


(* C30: lex ends on every input with a token tree or with an error and
   never panics, also after skipping whitespace characters that are more
   than one byte wide. *)
C30_NeverPanics == Lexed => result[1].tag \in {"ok", "err"}

\* on the inputs without whitespace wider than one byte lex ends with a token
\* tree or an error
C30_NarrowWhitespace ==
    (Lexed /\ \A i \in 1..Len(LexInput) : LexInput[i] # "nbsp") => result[1].tag \in {"ok", "err"}

----------------------------------------------------------------------------
(* Properties of the location parser *)

LocationParsed == stmt # <<>> /\ stmt[1].kind = "Location" /\ result # <<>>
LocText == stmt[1].input

\* the segments of the text after its first colon, as written
Segments == split(Tail(LocText), <<>>)

(* C18: a location text that parses is classified by its first segment: when
   that is an unsigned integer it is the line, there is no file and the
   second segment, if any, is the column; otherwise it is the file, the second
   segment is the line and the third the column; a bare `:` gives a location
   with no file, no line and no column. *)
C18_Classified ==
    (LocationParsed /\ starts_with_colon(LocText) /\ result[1].tag = "ok") =>
       LET loc == result[1].val
           seg(n) == IF Len(Segments) >= n THEN <<trim(Segments[n])>> ELSE <<>>
           num(o) == IF o = <<>> THEN <<>> ELSE parse_usize(o[1])
       IN  /\ parse_usize(seg(1)[1]) # <<>> =>
                 loc = Location(<<>>, parse_usize(seg(1)[1]), num(seg(2)))
           /\ (parse_usize(seg(1)[1]) = <<>> /\ LocText # <<":">>) =>
                 loc = Location(seg(1), num(seg(2)), num(seg(3)))
           /\ LocText = <<":">> => loc = Location(<<>>, <<>>, <<>>)

(* C19: a text of one of the forms `:file`, `:line`, `:file:line`, `:line:col`
   and `:file:line:col` still parses, and to the same location, with one `:`
   appended. *)
C19_TrailingColon ==
    (LocationParsed /\ result[1].tag = "ok" /\ Len(Segments) <= 3
        /\ \A n \in 1..Len(Segments) : Segments[n] # <<>>) =>
       location(Append(LocText, ":")) = result[1]

(* C20: a location text with a non-empty fourth or later segment, or with a
   third segment after a numeric first segment, is refused with a parse
   error. *)
C20_AtMostThree ==
    (LocationParsed /\ starts_with_colon(LocText)
        /\ \/ \E n \in 4..Len(Segments) : Segments[n] # <<>>
           \/ Len(Segments) >= 3 /\ parse_usize(trim(Segments[1])) # <<>>) =>
       result[1].tag = "err"


\* what the code keeps of C19 and C20: the trailing colon is accepted after
\* the three-segment form `:file:line:col`, and a non-empty fourth segment or
\* a third segment after a numeric first one are refused
LocationKept ==
    LocationParsed =>
       /\ (result[1].tag = "ok" /\ Len(Segments) = 3 /\ Segments[3] # <<>>) =>
             location(Append(LocText, ":")) = result[1]
       /\ (starts_with_colon(LocText)
             /\ \/ Len(Segments) >= 4 /\ Segments[4] # <<>>
                \/ Len(Segments) >= 3 /\ parse_usize(trim(Segments[1])) # <<>>) =>
             result[1].tag = "err"
       /\ (result[1].tag = "ok" /\ LocText # <<":">>) =>
             \/ result[1].val.file = <<>> /\ result[1].val.line # <<>>
             \/ result[1].val.file # <<>> /\ parse_usize(result[1].val.file[1]) = <<>>


----------------------------------------------------------------------------
(* Properties of the parser *)

StmtParsed == stmt # <<>> /\ stmt[1].kind = "Parse" /\ result # <<>>

\* the tokens of the statement text, when it lexes
StmtTokens == lex(stmt[1].input, 0).tokens

(* C14: parse_stmt returns a Statement only when the parser has consumed
   every token of the tree, the tokens of the statement and one optional final
   `;`; when the statement has been parsed and a token is left over, the
   result is a parse error and holds no Statement. *)
C14_AllTokensConsumed ==
    (StmtParsed /\ lex(stmt[1].input, 0).tag = "ok" /\ StmtTokens # <<>>) =>
       LET p == Parser_parse_stmt(StmtTokens, 0)
       IN  /\ result[1].tag = "ok" =>
                /\ p.tag = "ok"
                /\ p.pos = Len(StmtTokens)
                /\ result[1].val = p.val
           /\ (p.tag = "ok" /\ p.pos < Len(StmtTokens)) =>
                result[1].tag = "Parsing" /\ result[1].val = <<>>
           /\ result[1].tag # "ok" => result[1].val = <<>>

\* `show $ $`: the statement `show $` has been parsed and a token is left
C14_Witness ==
    /\ StmtParsed
    /\ lex(stmt[1].input, 0).tag = "ok"
    /\ Len(StmtTokens) = 3
    /\ StmtTokens[1].span.text = ShowText
    /\ StmtTokens[3].sym = "Dollar"
    /\ Parser_parse_stmt(StmtTokens, 0).tag = "ok"
    /\ Parser_parse_stmt(StmtTokens, 0).pos = 2
    /\ result[1].tag = "Parsing"


\* the tokens of the interior of group g, when it lexes
GroupTokens(g) == lex(inner(g.span), g.span.start + 1)

\* g is a group of expressions whose interior lexes
IsGroup(g) ==
    /\ g.kind = "RawTree"
    /\ ~starts_with_colon(inner(g.span))
    /\ GroupTokens(g).tag = "ok"

\* an expression has been read from the interior of g and tokens are left
LeftOver(g) ==
    /\ IsGroup(g)
    /\ LET e == maybe_expr(GroupTokens(g).tokens, 0)
       IN  e.tag = "ok" /\ e.pos < Len(GroupTokens(g).tokens)

(* C27: a parenthesised group is accepted only when its whole interior is
   consumed: a statement with a group inside which tokens are left over
   after its expression, as in `show ($ $)`, fails to parse. *)
C27_GroupsWhollyConsumed ==
    (StmtParsed /\ lex(stmt[1].input, 0).tag = "ok"
        /\ \E i \in 1..Len(StmtTokens) : LeftOver(StmtTokens[i])) =>
       result[1].tag # "ok"

\* `show` of a group with nothing left over is the show of Void when the
\* interior is empty and of the one expression of the interior otherwise
C27_WholeGroups ==
    (StmtParsed /\ lex(stmt[1].input, 0).tag = "ok" /\ Len(StmtTokens) = 2
        /\ StmtTokens[1].span.text = ShowText /\ IsGroup(StmtTokens[2])
        /\ ~LeftOver(StmtTokens[2])) =>
       LET tt == GroupTokens(StmtTokens[2]).tokens
       IN  /\ tt = <<>> => result[1] = POk(<<[k |-> "Show", e |-> [k |-> "Void"]]>>, 2)
           /\ (Len(tt) = 1 /\ tt[1].kind = "Symbol" /\ tt[1].sym = "Dollar") =>
                 result[1] = POk(<<[k |-> "Show", e |-> [k |-> "Dollar"]]>>, 2)

----------------------------------------------------------------------------
(* Properties of the file system *)

Resolved == stmt # <<>> /\ stmt[1].kind = "Resolve" /\ result # <<>>
ResLoc == stmt[1].loc
\* the paths the file system found, none when it failed or was not asked
ResPaths == IF ResLoc.file # <<>> /\ stmt[1].found.tag = "ok" THEN stmt[1].found.val[1] ELSE <<>>
Locator(rk, file, line, column) == [rk |-> rk, file |-> file, line |-> line, column |-> column]

(* C21: one matching file with line l and column c gives Position(file, l-1,
   c-1); with a line only Range::Line(file, l-1); alone Range::File; several
   matching files with no line and no column give Range::MultiFile; several
   matching files with a line or a column, no matching file, or no file name
   give an error. *)
C21_Resolve ==
    Resolved =>
       /\ (Len(ResPaths) = 1 /\ ResLoc.line # <<>> /\ ResLoc.column # <<>>) =>
             result = <<Ok(Locator("Position", ResPaths[1], ResLoc.line[1] - 1, ResLoc.column[1] - 1))>>
       /\ (Len(ResPaths) = 1 /\ ResLoc.line # <<>> /\ ResLoc.column = <<>>) =>
             result = <<Ok(Locator("Line", ResPaths[1], ResLoc.line[1] - 1, 0))>>
       /\ (Len(ResPaths) = 1 /\ ResLoc.line = <<>> /\ ResLoc.column = <<>>) =>
             result = <<Ok(Locator("File", ResPaths[1], 0, 0))>>
       /\ (Len(ResPaths) > 1 /\ ResLoc.line = <<>> /\ ResLoc.column = <<>>) =>
             result[1].tag = "ok" /\ result[1].val[1].rk = "MultiFile"
       /\ (Len(ResPaths) > 1 /\ (ResLoc.line # <<>> \/ ResLoc.column # <<>>)) => result[1].tag = "err"
       /\ Len(ResPaths) = 0 => result[1].tag = "err"

\* a line or column that is given and not 0
Given(o) == o # <<>> /\ o[1] > 0

(* C21, amended: lines and columns count from 1, and a line or column of 0 is
   taken as not given.  One matching file with a line l >= 1 and a column
   c >= 1 gives Position(file, l-1, c-1); with a line l >= 1 and no column
   (or column 0) Range::Line(file, l-1); with no line (or line 0)
   Range::File, whatever the column; the rules for several files, no file and
   no file name are as claimed. *)
C21_ResolveFromOne ==
    Resolved =>
       /\ (Len(ResPaths) = 1 /\ Given(ResLoc.line) /\ Given(ResLoc.column)) =>
             result = <<Ok(Locator("Position", ResPaths[1], ResLoc.line[1] - 1, ResLoc.column[1] - 1))>>
       /\ (Len(ResPaths) = 1 /\ Given(ResLoc.line) /\ ~Given(ResLoc.column)) =>
             result = <<Ok(Locator("Line", ResPaths[1], ResLoc.line[1] - 1, 0))>>
       /\ (Len(ResPaths) = 1 /\ ~Given(ResLoc.line)) =>
             result = <<Ok(Locator("File", ResPaths[1], 0, 0))>>
       /\ (Len(ResPaths) > 1 /\ ResLoc.line = <<>> /\ ResLoc.column = <<>>) =>
             result[1].tag = "ok" /\ result[1].val[1].rk = "MultiFile"
       /\ (Len(ResPaths) > 1 /\ (ResLoc.line # <<>> \/ ResLoc.column # <<>>)) => result[1].tag = "err"
       /\ Len(ResPaths) = 0 => result[1].tag = "err"

\* one matching file, line 0 and a column: the whole file
C21_Witness ==
    /\ Resolved /\ Len(ResPaths) = 1
    /\ ResLoc.line = <<0>> /\ ResLoc.column = <<2>>
    /\ result = <<Ok(Locator("File", ResPaths[1], 0, 0))>>


----------------------------------------------------------------------------
(* Properties of the display *)

Shown == stmt # <<>> /\ stmt[1].kind = "Value" /\ result # <<>> /\ result[1].op = "show"
ShownValue == stmt[1].v

\* the texts ts, with `, ` between them
RECURSIVE Separated(_)
Separated(ts) ==
    IF ts = <<>> THEN <<>>
    ELSE IF Len(ts) = 1 THEN ts[1]
    ELSE ts[1] \o <<",", " ">> \o Separated(Tail(ts))

\* t is the decimal text of n
IsDecimalOf(t, n) ==
    /\ t # <<>>
    /\ \A i \in 1..Len(t) : t[i] \in Digits
    /\ (Len(t) > 1 => t[1] # "0")
    /\ Decimal(t) = n

(* C22: a Set of fewer than 5 elements is displayed as `[`, the displays of
   its elements in order with `, ` between them, and `]`; a Set of 5 or more
   elements as `[...]*N`, N being the number of its elements in decimal; Void
   as `()`; a Number as its decimal digits. *)
C22_SetDisplay ==
    Shown =>
       LET v == ShownValue
           text == result[1].text
       IN  /\ (v.kind = "Set" /\ Len(v.elems) < 5) =>
                 text = <<"[">> \o Separated([i \in 1..Len(v.elems) |-> ValueKindShow(v.elems[i])])
                           \o <<"]">>
           /\ (v.kind = "Set" /\ Len(v.elems) >= 5) =>
                 /\ Len(text) > 6
                 /\ SubSeq(text, 1, 6) = <<"[", ".", ".", ".", "]", "*">>
                 /\ IsDecimalOf(SubSeq(text, 7, Len(text)), Len(v.elems))
           /\ v.kind = "Void" => text = <<"(", ")">>
           /\ v.kind = "Number" => IsDecimalOf(text, v.n)

\* a set of exactly five elements, abbreviated
C22_Witness ==
    /\ Shown
    /\ ShownValue.kind = "Set" /\ Len(ShownValue.elems) = 5
    /\ result[1].text = <<"[", ".", ".", ".", "]", "*", "5">>

(* C23: an empty Set(T) is indistinguishable from Void: it is displayed as
   Void is, its type is equal to the type of Void, and is_void is true of
   both, and false of every non-empty set and every other value. *)
C23_EmptySetIsVoid ==
    (stmt # <<>> /\ stmt[1].kind = "Value" /\ result # <<>>) =>
       LET v == ShownValue
           empty == v.kind = "Set" /\ v.elems = <<>>
       IN  /\ (empty /\ result[1].op = "show") => result[1].text = ValueKindShow(VoidValue)
           /\ empty => v.ty = VoidValue.ty
           /\ result[1].op = "is_void" => (result[1].void <=> (empty \/ v.kind = "Void"))

\* what the code keeps of C23: is_void is true of Void and of the empty sets
\* only
C23_IsVoid ==
    (stmt # <<>> /\ stmt[1].kind = "Value" /\ result # <<>> /\ result[1].op = "is_void") =>
       (result[1].void <=> (ShownValue.kind = "Void"
                               \/ (ShownValue.kind = "Set" /\ ShownValue.elems = <<>>)))


----------------------------------------------------------------------------
(* Properties of forcing *)

Forced == stmt # <<>> /\ stmt[1].kind = "Force" /\ result # <<>>
ForcedFns == stmt[1].v.q[1].fns

(* C24: when a query is forced, each Function node is forced at most once; a
   node calls the backend only after every node below it and the Ready leaf
   have been forced, and nothing of its lhs is forced after that call; a chain
   of k nodes makes at most k backend calls, the innermost first; after a
   backend call that fails no outer node calls the backend, and the forcing
   returns that error. *)
C24_LhsFirst ==
    Forced =>
       /\ \A i, j \in LogIdx :
             (i # j /\ log[i].op = "force" /\ log[j].op = "force") => log[i].n # log[j].n
       /\ \A j \in LogIdx :
             log[j].op = "call" =>
                /\ log[j].n \in 1..Len(ForcedFns)
                /\ \A m \in 1..log[j].n : \E i \in 1..(j - 1) : log[i].op = "force" /\ log[i].n = m
                /\ \E i \in 1..(j - 1) : log[i].op = "ready"
                /\ \A i \in (j + 1)..Len(log) : log[i].n > log[j].n
                /\ log[j].res # "ok" =>
                      /\ \A i \in (j + 1)..Len(log) : log[i].op # "call"
                      /\ result[1].tag = "err" /\ result[1].err.kind = "Backend"
       /\ Cardinality({j \in LogIdx : log[j].op = "call"}) <= Len(ForcedFns)

\* a chain of three nodes that calls the backend for its first and its third
\* node
C24_Witness ==
    /\ Forced /\ Len(ForcedFns) = 3
    /\ \E i, j \in LogIdx :
          /\ i < j
          /\ log[i].op = "call" /\ log[i].n = 1 /\ log[i].res = "ok"
          /\ log[j].op = "call" /\ log[j].n = 3

\* what the lhs of the outermost node of the forced query forces to
ForcedLhs == QueryEval(stmt[1].v.q[1], Len(ForcedFns) - 1, LookupState, stmt[1].w, "select").r

(* C28: forcing a pick query never panics: when the lhs of the pick forces to
   an empty set, the forcing returns an error value. *)
C28_PickOfEmptySet ==
    (Forced /\ ForcedFns # <<>> /\ ForcedFns[Len(ForcedFns)].def = "Pick"
        /\ ForcedLhs.tag = "ok" /\ ForcedLhs.val[1].kind = "Set"
        /\ ForcedLhs.val[1].elems = <<>>) =>
       result[1].tag = "err"

\* forcing a pick whose lhs forces to a set that is not empty returns the
\* first element of the set
C28_PickOfElements ==
    (Forced /\ ForcedFns # <<>> /\ ForcedFns[Len(ForcedFns)].def = "Pick"
        /\ ForcedLhs.tag = "ok" /\ ForcedLhs.val[1].kind = "Set"
        /\ ForcedLhs.val[1].elems # <<>>) =>
       result[1] = Ok(ForcedLhs.val[1].elems[1])


----------------------------------------------------------------------------
(* Properties of the values *)

\* the kind of v is the one its type names
KindMatchesType(v) ==
    CASE v.ty[1] = "Query" -> v.kind = "Query"
      [] v.ty[1] = "Set" -> v.kind = "Set"
      [] v.ty[1] = "Void" -> v.kind = "Void"
      [] v.ty[1] = "Number" -> v.kind = "Number"
      [] v.ty[1] = "Identifier" -> v.kind = "Identifier"
      [] v.ty[1] = "Position" -> v.kind = "Position"
      [] v.ty[1] = "Range" -> v.kind = "Range"
      [] v.ty[1] = "Definition" -> v.kind = "Definition"
      [] OTHER -> FALSE

(* C25: the value an operation produces has the kind its type names: Query
   exactly when the type is Query(_), Set exactly when it is Set(_), and
   otherwise the variant of that name. *)
C25_KindMatchesType ==
    (stmt # <<>> /\ stmt[1].kind = "Expr" /\ result # <<>> /\ result[1].tag = "ok") =>
       KindMatchesType(result[1].val[1])


----------------------------------------------------------------------------
(* Properties of re-lexing *)

Relexed == stmt # <<>> /\ stmt[1].kind = "Relex" /\ result # <<>>

\* the token's text is what the original input holds from the token's start
AtItsText(input, tok) ==
    /\ tok.span.start + Len(tok.span.text) <= Len(input)
    /\ Slice(input, tok.span.start, tok.span.start + Len(tok.span.text)) = tok.span.text

\* every token and the lexing error of the result are at their byte positions
\* in the original input
AbsolutePositions ==
    LET r == result[1]
        input == stmt[1].input
    IN  /\ r.tag = "ok" => \A i \in 1..Len(r.tokens) : AtItsText(input, r.tokens[i])
        /\ r.tag = "err" => (r.off < Len(input) /\ input[r.off + 1] = "%")

(* C26: each token and each lexing error expect_raw_tree produces has as its
   start offset its byte position in the original input, also when the
   interior of the group begins with whitespace. *)
C26_AbsolutePositions == Relexed => AbsolutePositions

\* the same for the groups whose interior does not begin with whitespace
C26_UntrimmedAbsolute ==
    (Relexed /\ ~is_whitespace(stmt[1].input[stmt[1].tok.span.start + 2])) => AbsolutePositions

====
